---- MODULE Spec2Model ----
(***************************************************************************)
(* Entitlement ledger, audit log and directory sync of the community       *)
(* event system.  The repository holds two generations of the ledger:      *)
(*   - the "plates" ledger  (src/src/lib/actions.ts, table servings),      *)
(*   - the "coupons" ledger (src/unnamed/part_001, table event_entries),   *)
(* and several generations of the sheet sync.  Each server action is a     *)
(* sequence of awaited storage calls; every await is a step at which the   *)
(* calls of other stations interleave.                                     *)
(***************************************************************************)
EXTENDS Integers, Sequences, FiniteSets, TLC

VARIABLES
  families,       \* plates generation: family_id -> members_count (0: no row)
  servings,       \* plates generation: table servings
  audit_logs,     \* table audit_logs, in insertion order
  events,         \* coupons generation: ids of the rows of table events
  event_entries,  \* coupons generation: table event_entries
  directory,      \* surname/phone generation: table families
  pc,             \* per station: the await its call in flight has reached
  loc,            \* per station: the locals of that call, or its response
  nextId,         \* next generated row id
  calls,          \* number of calls started
  faulty,         \* whether storage calls may return an error
  eventName       \* per station: the admin page's eventName (current_event_name)

vars == <<families, servings, audit_logs, events, event_entries, directory,
          pc, loc, nextId, calls, faulty, eventName>>

(***************************************************************************)
(* Bounds                                                                  *)
(***************************************************************************)
MaxSize == 2

MaxCalls == 3

MaxAdjust == 1

MaxRows == 2

Stations == {"s1", "s2"}

FamilyIds == {"F1", "F2"}

Events == {"E1"}

\* the event name the pages start with, and the names an admin may type
DEFAULT_EVENT == "E1"

EventNames == {"E1", "E2"}

Roles == {"volunteer", "admin"}

\* a sheet cell or a text parameter: empty, or filled
Blank == ""

Filled == "x"

NoFamily == "NULL"

NoId == 0

NoVal == -1

Sizes == 1..MaxSize

Quantities == 0..(MaxSize + 1)

Adjustments == (0 - MaxAdjust)..MaxAdjust

Max(a, b) == IF a >= b THEN a ELSE b

(***************************************************************************)
(* Local state of one server-action call                                   *)
(***************************************************************************)
\* the sum of f over a set of rows (reduce((sum, s) => sum + ..., 0))
RECURSIVE SumOver(_, _)
SumOver(rows, f) ==
  IF rows = {} THEN 0
  ELSE LET r == CHOOSE x \in rows : TRUE
       IN f[r] + SumOver(rows \ {r}, f)

NoStats ==
  [familiesCheckedIn |-> 0, totalPlatesEntitled |-> 0, totalPlatesServed |-> 0]

\* const stats = { total: 0, synced: 0, skipped: 0, errors: 0 } of the batched sync
NoSync == [total |-> 0, synced |-> 0, skipped |-> 0, errors |-> 0]

Loc0 ==
  [op |-> "none", role |-> "volunteer", ev |-> "E1", fam |-> NoFamily,
   qty |-> 0, size |-> 0, recId |-> NoId, used |-> 0, newUsed |-> 0,
   cnt |-> 0, list |-> <<>>, errs |-> 0, applied |-> FALSE, writes |-> 0,
   evId |-> NoId, guests |-> 0, total |-> 0, newTotal |-> 0, status |-> "none",
   i |-> 0, inserted |-> 0, updated |-> 0, rerun |-> FALSE, dir0 |-> {},
   stats |-> NoStats, members_present |-> 0, guest_count |-> 0,
   reason |-> "none", sync |-> NoSync, result |-> "none"]

Idle(s) == pc[s] \in {"idle", "done"}

CanCall(s) == Idle(s) /\ calls < MaxCalls

\* The call returns: its locals are dropped, the caller keeps the response.
Response(l, res) ==
  [Loc0 EXCEPT !.op = l.op, !.result = res]

Finish(s, l, res) ==
  /\ pc' = [pc EXCEPT ![s] = "done"]
  /\ loc' = [loc EXCEPT ![s] = Response(l, res)]

Goto(s, l, label) ==
  /\ pc' = [pc EXCEPT ![s] = label]
  /\ loc' = [loc EXCEPT ![s] = l]

(***************************************************************************)
(* Storage helpers                                                         *)
(***************************************************************************)
FaultChoices == IF faulty THEN {FALSE, TRUE} ELSE {FALSE}

ServingOf(ev, fam) == {r \in servings : r.event_name = ev /\ r.family_id = fam}

ServingById(id) == {r \in servings : r.id = id}

\* getEventStats: families checked in, plates entitled (the members_count of
\* their families), plates served
EventStats(ev) ==
  LET rows == {r \in servings : r.event_name = ev /\ r.checked_in_at}
      members == [r \in rows |-> families[r.family_id]]
      used == [r \in rows |-> r.plates_used]
  IN [familiesCheckedIn |-> Cardinality(rows),
      totalPlatesEntitled |-> SumOver(rows, members),
      totalPlatesServed |-> SumOver(rows, used)]

\* audit_logs insert (logAudit): the row is appended; an insert error is only
\* logged to the console, so the caller continues either way.
\* applied is a history field: whether the storage call the row reports on
\* changed a row.
AuditRow(l, action, fam, before, after, s) ==
  [action_type |-> action, event_name |-> l.ev, family_id |-> fam,
   before_value |-> before, after_value |-> after, applied |-> l.applied]

logAudit(l, action, fam, before, after, s, err) ==
  audit_logs' = IF err THEN audit_logs
                ELSE Append(audit_logs, AuditRow(l, action, fam, before, after, s))

(***************************************************************************)
(* checkInFamily (plates ledger)                                           *)
(***************************************************************************)
CheckInReadFamily(s) ==
  /\ CanCall(s)
  /\ \E ev \in Events, fam \in FamilyIds :
       LET l == [Loc0 EXCEPT !.op = "checkIn", !.ev = ev,
                             !.fam = fam, !.size = families[fam]]
       IN IF families[fam] = 0
          THEN Finish(s, l, "NOT_FOUND")
          ELSE Goto(s, l, "ci_existing")
  /\ calls' = calls + 1
  /\ UNCHANGED <<families, servings, audit_logs, nextId, faulty, eventName>>
  /\ UNCHANGED <<events, event_entries, directory>>

CheckInReadExisting(s) ==
  /\ pc[s] = "ci_existing"
  /\ LET l == loc[s]
         ex == ServingOf(l.ev, l.fam)
     IN IF \E r \in ex : r.checked_in_at
        THEN Finish(s, l, "ALREADY_CHECKED_IN")
        ELSE IF ex = {}
             THEN Goto(s, [l EXCEPT !.recId = NoId], "ci_write")
             ELSE Goto(s, [l EXCEPT !.recId = (CHOOSE r \in ex : TRUE).id], "ci_write")
  /\ UNCHANGED <<families, servings, audit_logs, nextId, calls, faulty, eventName>>
  /\ UNCHANGED <<events, event_entries, directory>>

UniqueViolationNever(ev, fam) == FALSE

\* UNIQUE(event_name, family_id) on servings: an insert for a pair that has a
\* row is rejected
UniqueViolation(ev, fam) == ServingOf(ev, fam) # {}

\* The insert is subject to UNIQUE(event_name, family_id) and to the foreign
\* key on families; its error is not inspected by the caller.
CheckInWrite(s) ==
  /\ pc[s] = "ci_write"
  /\ LET l == loc[s]
     IN IF l.recId # NoId
        THEN /\ servings' = {IF r.id = l.recId THEN [r EXCEPT !.checked_in_at = TRUE] ELSE r
                              : r \in servings}
             /\ nextId' = nextId
             /\ Goto(s, [l EXCEPT !.applied = (ServingById(l.recId) # {}),
                                  !.writes = l.writes + 1], "ci_audit")
        ELSE IF UniqueViolation(l.ev, l.fam) \/ families[l.fam] = 0
             THEN /\ UNCHANGED <<servings, nextId>>
                  /\ Goto(s, [l EXCEPT !.applied = FALSE, !.writes = l.writes + 1], "ci_audit")
             ELSE /\ servings' = servings \cup
                       {[id |-> nextId, event_name |-> l.ev, family_id |-> l.fam,
                         plates_used |-> 0, checked_in_at |-> TRUE]}
                  /\ nextId' = nextId + 1
                  /\ Goto(s, [l EXCEPT !.applied = TRUE, !.writes = l.writes + 1], "ci_audit")
  /\ UNCHANGED <<families, audit_logs, calls, faulty, eventName>>
  /\ UNCHANGED <<events, event_entries, directory>>

CheckInAudit(s) ==
  /\ pc[s] = "ci_audit"
  /\ \E err \in FaultChoices :
       logAudit(loc[s], "CHECK_IN", loc[s].fam, NoVal, loc[s].size, s, err)
  /\ Finish(s, loc[s], "success")
  /\ UNCHANGED <<families, servings, nextId, calls, faulty, eventName>>
  /\ UNCHANGED <<events, event_entries, directory>>

(***************************************************************************)
(* servePlates (plates ledger)                                             *)
(***************************************************************************)
\* Math.max(0, Math.floor(params.quantity))
ServeQuantity(q) == Max(0, q)

\* servePlates({eventName: ev, familyId: fam, quantity: q}) up to its read of
\* the family
ServeCall(s, ev, fam, q) ==
  /\ LET l == [Loc0 EXCEPT !.op = "serve", !.ev = ev, !.fam = fam,
                           !.qty = ServeQuantity(q), !.size = families[fam]]
     IN IF ServeQuantity(q) = 0
        THEN Finish(s, l, "INVALID")
        ELSE IF families[fam] = 0
             THEN Finish(s, l, "NOT_FOUND")
             ELSE Goto(s, l, "sv_serving")
  /\ calls' = calls + 1
  /\ UNCHANGED <<families, servings, audit_logs, nextId, faulty, eventName>>
  /\ UNCHANGED <<events, event_entries, directory>>

ServeReadFamily(s) ==
  /\ CanCall(s)
  /\ \E ev \in Events, fam \in FamilyIds, q \in Quantities : ServeCall(s, ev, fam, q)

ServeReadServing(s) ==
  /\ pc[s] = "sv_serving"
  /\ LET l == loc[s]
         ex == ServingOf(l.ev, l.fam)
     IN IF ex = {}
        THEN Finish(s, l, "NOT_CHECKED_IN")
        ELSE LET r == CHOOSE x \in ex : TRUE
                 plates_remaining == l.size - r.plates_used
             IN IF ~r.checked_in_at
                THEN Finish(s, l, "NOT_CHECKED_IN")
                ELSE IF l.qty > plates_remaining
                     THEN Finish(s, [l EXCEPT !.recId = r.id, !.used = r.plates_used],
                                 "INSUFFICIENT_PLATES")
                     ELSE Goto(s, [l EXCEPT !.recId = r.id, !.used = r.plates_used,
                                            !.newUsed = r.plates_used + l.qty], "sv_write")
  /\ UNCHANGED <<families, servings, audit_logs, nextId, calls, faulty, eventName>>
  /\ UNCHANGED <<events, event_entries, directory>>

\* The update guarded by the count it is about to write, not the one it read.
ServeGuardNewUsed(r, l) == r.id = l.recId /\ r.plates_used = l.newUsed

\* The update keyed on the row id alone, without the plates_used guard.
ServeGuardIdOnly(r, l) == r.id = l.recId

\* .update({plates_used: new_used}).eq('id', id).eq('plates_used', current_used)
ServeGuard(r, l) == r.id = l.recId /\ r.plates_used = l.used

ServeWrite(s) ==
  /\ pc[s] = "sv_write"
  /\ \E err \in FaultChoices :
       LET l == [loc[s] EXCEPT !.writes = loc[s].writes + 1]
           hit == {r \in servings : ServeGuard(r, l)}
       IN IF err
          THEN /\ UNCHANGED servings
               /\ Finish(s, l, "UPDATE_FAILED")
          ELSE IF hit = {}
               THEN /\ UNCHANGED servings
                    /\ Finish(s, l, "CONCURRENCY")
               ELSE /\ servings' = {IF ServeGuard(r, l)
                                    THEN [r EXCEPT !.plates_used = l.newUsed] ELSE r
                                    : r \in servings}
                    /\ Goto(s, [l EXCEPT !.applied = TRUE], "sv_audit")
  /\ UNCHANGED <<families, audit_logs, nextId, calls, faulty, eventName>>
  /\ UNCHANGED <<events, event_entries, directory>>

ServeAudit(s) ==
  /\ pc[s] = "sv_audit"
  /\ \E err \in FaultChoices :
       logAudit(loc[s], "SERVE", loc[s].fam, loc[s].used, loc[s].newUsed, s, err)
  /\ Finish(s, loc[s], "success")
  /\ UNCHANGED <<families, servings, nextId, calls, faulty, eventName>>
  /\ UNCHANGED <<events, event_entries, directory>>

(***************************************************************************)
(* adjustPlates (plates ledger)                                            *)
(***************************************************************************)
\* params.reason: empty, or some text
Reasons == {Blank, Filled}

AdminRequiredNever(role) == FALSE

\* if (params.role !== 'admin') return ...
AdminRequired(role) == role # "admin"

\* the call arrives: adjustPlates({role, eventName, familyId, adjustment,
\* reason}); the role is checked before the first storage call
AdjustRequest(s, reason) ==
  /\ CanCall(s)
  /\ \E role \in Roles, ev \in Events, fam \in FamilyIds, adj \in Adjustments :
       LET l == [Loc0 EXCEPT !.op = "adjust", !.role = role, !.ev = ev, !.fam = fam,
                             !.qty = adj, !.reason = reason]
       IN IF AdminRequired(role)
          THEN Finish(s, l, "ADMIN_REQUIRED")
          ELSE Goto(s, l, "aj_read")
  /\ calls' = calls + 1
  /\ UNCHANGED <<families, servings, audit_logs, nextId, faulty, eventName>>
  /\ UNCHANGED <<events, event_entries, directory>>

\* an adjustment that states its reason
AdjustCall(s) ==
  AdjustRequest(s, Filled)

AdjustRead(s) ==
  /\ pc[s] = "aj_read"
  /\ LET l == loc[s]
         ex == ServingOf(l.ev, l.fam)
     IN IF ex = {}
        THEN Finish(s, l, "NO_RECORD")
        ELSE LET r == CHOOSE x \in ex : TRUE
             IN Goto(s, [l EXCEPT !.recId = r.id, !.used = r.plates_used,
                                  !.newUsed = Max(0, r.plates_used + l.qty)],
                     "aj_write")
  /\ UNCHANGED <<families, servings, audit_logs, nextId, calls, faulty, eventName>>
  /\ UNCHANGED <<events, event_entries, directory>>

\* .update({plates_used: newPlatesUsed}).eq('id', serving.id); the result is
\* not inspected.
AdjustWrite(s) ==
  /\ pc[s] = "aj_write"
  /\ LET l == loc[s]
     IN /\ servings' = {IF r.id = l.recId THEN [r EXCEPT !.plates_used = l.newUsed] ELSE r
                         : r \in servings}
        /\ Goto(s, [l EXCEPT !.applied = (ServingById(l.recId) # {}),
                             !.writes = l.writes + 1], "aj_audit")
  /\ UNCHANGED <<families, audit_logs, nextId, calls, faulty, eventName>>
  /\ UNCHANGED <<events, event_entries, directory>>

AdjustAudit(s) ==
  /\ pc[s] = "aj_audit"
  /\ \E err \in FaultChoices :
       logAudit(loc[s], "ADJUST", loc[s].fam, loc[s].used, loc[s].newUsed, s, err)
  /\ Finish(s, loc[s], "success")
  /\ UNCHANGED <<families, servings, nextId, calls, faulty, eventName>>
  /\ UNCHANGED <<events, event_entries, directory>>

(***************************************************************************)
(* resetEvent (plates ledger)                                              *)
(***************************************************************************)
\* the call arrives: resetEvent({eventName: ev}); its first await counts the
\* servings rows of the event
ResetCall(s, ev) ==
  /\ CanCall(s)
  /\ LET l == [Loc0 EXCEPT !.op = "reset", !.role = "admin", !.ev = ev,
                           !.cnt = Cardinality({r \in servings : r.event_name = ev})]
     IN Goto(s, l, "rs_delete")
  /\ calls' = calls + 1
  /\ UNCHANGED <<families, servings, audit_logs, nextId, faulty, eventName>>
  /\ UNCHANGED <<events, event_entries, directory>>

ResetCount(s) ==
  \E ev \in Events : ResetCall(s, ev)

\* The delete without its event_name filter.
ResetDeleteAll(s) ==
  /\ pc[s] = "rs_delete"
  /\ \E err \in FaultChoices :
       LET l == [loc[s] EXCEPT !.writes = loc[s].writes + 1]
       IN IF err
          THEN /\ UNCHANGED servings
               /\ Finish(s, l, "RESET_FAILED")
          ELSE /\ servings' = {}
               /\ Goto(s, [l EXCEPT !.applied = TRUE, !.stats = EventStats(l.ev)],
                       "rs_audit")
  /\ UNCHANGED <<families, audit_logs, nextId, calls, faulty, eventName>>
  /\ UNCHANGED <<events, event_entries, directory>>

\* stats is a history field: the statistics of the rows the delete removes
ResetDelete(s) ==
  /\ pc[s] = "rs_delete"
  /\ \E err \in FaultChoices :
       LET l == [loc[s] EXCEPT !.writes = loc[s].writes + 1]
       IN IF err
          THEN /\ UNCHANGED servings
               /\ Finish(s, l, "RESET_FAILED")
          ELSE /\ servings' = {r \in servings : r.event_name # l.ev}
               /\ Goto(s, [l EXCEPT !.applied = TRUE, !.stats = EventStats(l.ev)],
                       "rs_audit")
  /\ UNCHANGED <<families, audit_logs, nextId, calls, faulty, eventName>>
  /\ UNCHANGED <<events, event_entries, directory>>

\* before: { servings_count: count }, after: { servings_count: 0 }
ResetSnapshot(count) ==
  [servings_count |-> count]

ResetAudit(s) ==
  /\ pc[s] = "rs_audit"
  /\ \E err \in FaultChoices :
       logAudit(loc[s], "RESET", NoFamily, ResetSnapshot(loc[s].cnt),
                ResetSnapshot(0), s, err)
  /\ Finish(s, loc[s], "success")
  /\ UNCHANGED <<families, servings, nextId, calls, faulty, eventName>>
  /\ UNCHANGED <<events, event_entries, directory>>

(***************************************************************************)
(* Sheet sync, "atomic replace" generation (src/app/api/sync/route.ts with *)
(* the fetchFamiliesFromSheet that returns {families, errors})             *)
(***************************************************************************)

\* Number(members_count_raw) of a non-numeric cell is NaN
NaN == NoVal

SheetRow(fid, name, head, phone, count) ==
  [family_id |-> fid, family_name |-> name, head_name |-> head, phone |-> phone,
   members_count |-> count]

SheetRows ==
  {SheetRow(f, Filled, Filled, Filled, n) : f \in FamilyIds, n \in Sizes}
    \cup {SheetRow(Blank, Filled, Filled, Filled, 1),
          SheetRow("F1", Blank, Filled, Filled, 1),
          SheetRow("F1", Filled, Blank, Filled, 1),
          SheetRow("F1", Filled, Filled, Blank, 1),
          SheetRow("F1", Filled, Filled, Filled, 0),
          SheetRow("F1", Filled, Filled, Filled, NaN)}

Sheets == UNION {[1..n -> SheetRows] : n \in 0..MaxRows}

RowValid(row) ==
  /\ row.family_id # Blank
  /\ row.family_name # Blank
  /\ row.head_name # Blank
  /\ row.phone # Blank
  /\ ~(row.members_count = NaN \/ row.members_count < 1)

RECURSIVE ValidFamilies(_)
ValidFamilies(rows) ==
  IF rows = <<>> THEN <<>>
  ELSE LET rest == ValidFamilies(Tail(rows))
       IN IF RowValid(Head(rows))
          THEN <<[family_id |-> Head(rows).family_id,
                  members_count |-> Head(rows).members_count]>> \o rest
          ELSE rest

RowErrors(rows) == Cardinality({i \in DOMAIN rows : ~RowValid(rows[i])})

\* unreachable is the API key / sheet id missing, a non-2xx answer or a throw
fetchFamiliesFromSheet(unreachable, rows) ==
  IF unreachable THEN [families |-> <<>>, errors |-> 1]
  ELSE [families |-> ValidFamilies(rows), errors |-> RowErrors(rows)]

DuplicateIds(list) ==
  {list[i].family_id : i \in {j \in DOMAIN list :
       \E k \in DOMAIN list : k # j /\ list[k].family_id = list[j].family_id}}

SyncFetch(s) ==
  /\ CanCall(s)
  /\ \E unreachable \in BOOLEAN, rows \in Sheets :
       LET got == fetchFamiliesFromSheet(unreachable, rows)
           l == [Loc0 EXCEPT !.op = "sync", !.ev = "SYSTEM", !.role = "admin",
                             !.list = got.families, !.errs = got.errors]
       IN IF got.errors > 0 /\ Len(got.families) = 0
          THEN Finish(s, l, "FETCH_FAILED")
          ELSE IF Len(got.families) = 0
               THEN Finish(s, l, "NO_VALID_FAMILIES")
               ELSE IF DuplicateIds(got.families) # {}
                    THEN Finish(s, l, "DUPLICATE_IDS")
                    ELSE Goto(s, [l EXCEPT !.errs = 0], "sy_count")
  /\ calls' = calls + 1
  /\ UNCHANGED <<families, servings, audit_logs, nextId, faulty, eventName>>
  /\ UNCHANGED <<events, event_entries, directory>>

SyncCount(s) ==
  /\ pc[s] = "sy_count"
  /\ Goto(s, [loc[s] EXCEPT !.cnt = Cardinality({f \in FamilyIds : families[f] # 0})],
          "sy_delete")
  /\ UNCHANGED <<families, servings, audit_logs, nextId, calls, faulty, eventName>>
  /\ UNCHANGED <<events, event_entries, directory>>

\* servings.family_id ... ON DELETE CASCADE
CascadeServings(deleted) == {r \in servings : r.family_id \notin deleted}

\* audit_logs.family_id ... ON DELETE SET NULL
CascadeAudit(deleted) ==
  [i \in DOMAIN audit_logs |->
     IF audit_logs[i].family_id \in deleted
     THEN [audit_logs[i] EXCEPT !.family_id = NoFamily]
     ELSE audit_logs[i]]

\* .from('families').delete().neq('family_id', '')
SyncDelete(s) ==
  /\ pc[s] = "sy_delete"
  /\ \E err \in FaultChoices :
       LET l == [loc[s] EXCEPT !.writes = loc[s].writes + 1]
           deleted == {f \in FamilyIds : families[f] # 0}
       IN IF err
          THEN /\ UNCHANGED <<families, servings, audit_logs>>
               /\ Finish(s, l, "DELETE_FAILED")
          ELSE /\ families' = [f \in FamilyIds |-> 0]
               /\ servings' = CascadeServings(deleted)
               /\ audit_logs' = CascadeAudit(deleted)
               /\ Goto(s, l, "sy_insert")
  /\ UNCHANGED <<nextId, calls, faulty, eventName>>
  /\ UNCHANGED <<events, event_entries, directory>>

\* One insert statement for all rows: a row whose family_id is already present
\* makes the whole statement fail.
SyncInsert(s) ==
  /\ pc[s] = "sy_insert"
  /\ \E err \in FaultChoices :
       LET l == [loc[s] EXCEPT !.writes = loc[s].writes + 1]
           clash == \E i \in DOMAIN l.list : families[l.list[i].family_id] # 0
       IN IF err \/ clash
          THEN /\ UNCHANGED families
               /\ Finish(s, l, "INSERT_FAILED")
          ELSE /\ families' = [f \in FamilyIds |->
                                 IF \E i \in DOMAIN l.list : l.list[i].family_id = f
                                 THEN (CHOOSE x \in {l.list[i] : i \in DOMAIN l.list} :
                                         x.family_id = f).members_count
                                 ELSE families[f]]
               /\ Goto(s, [l EXCEPT !.applied = TRUE], "sy_audit")
  /\ UNCHANGED <<servings, audit_logs, nextId, calls, faulty, eventName>>
  /\ UNCHANGED <<events, event_entries, directory>>

SyncAudit(s) ==
  /\ pc[s] = "sy_audit"
  /\ \E err \in FaultChoices :
       logAudit(loc[s], "SYNC", NoFamily, loc[s].cnt, Len(loc[s].list), s, err)
  /\ Finish(s, loc[s], "success")
  /\ UNCHANGED <<families, servings, nextId, calls, faulty, eventName>>
  /\ UNCHANGED <<events, event_entries, directory>>

(***************************************************************************)
(* The coupons ledger (src/unnamed/part_001): tables events and            *)
(* event_entries.  A call that lets a storage error escape as an           *)
(* exception responds "THROWN".                                            *)
(***************************************************************************)
MaxGuests == 1

EntryById(id) == {r \in event_entries : r.id = id}

\* the entry ids a caller can pass: the listed entries, or a stale id
EntryIds == {r.id : r \in event_entries} \cup {NoId}

CouponAuditRow(role, ev, fam, action, before, after) ==
  [actor_role |-> role, event_id |-> ev, family_id |-> fam,
   action_type |-> action, before_value |-> before, after_value |-> after]

CouponLogAudit(row, err) ==
  audit_logs' = IF err THEN audit_logs ELSE Append(audit_logs, row)

(***************************************************************************)
(* checkInFamily (coupons ledger), with getOrCreateEventByName             *)
(***************************************************************************)
\* params.members_present and params.guest_count, as a client may send them
MembersPresent == (0 - 1)..MaxSize

GuestCounts == (0 - 1)..MaxGuests

CouponCheckInEvent(s) ==
  /\ CanCall(s)
  /\ \E fam \in FamilyIds, m \in MembersPresent, g \in GuestCounts :
       LET l == [Loc0 EXCEPT !.op = "checkin", !.fam = fam,
                             !.members_present = m, !.guest_count = g,
                             !.size = Max(0, m), !.guests = Max(0, g),
                             !.total = Max(0, m) + Max(0, g)]
       IN IF events = {}
          THEN Goto(s, l, "cc_event")
          ELSE \E e \in events : Goto(s, [l EXCEPT !.evId = e], "cc_insert")
  /\ calls' = calls + 1
  /\ UNCHANGED <<families, servings, audit_logs, nextId, faulty, eventName>>
  /\ UNCHANGED <<events, event_entries, directory>>

CouponEventInsert(s) ==
  /\ pc[s] = "cc_event"
  /\ \E err \in FaultChoices :
       IF err
       THEN /\ Finish(s, loc[s], "THROWN")
            /\ UNCHANGED <<events, nextId>>
       ELSE /\ events' = events \cup {nextId}
            /\ nextId' = nextId + 1
            /\ Goto(s, [loc[s] EXCEPT !.evId = nextId], "cc_insert")
  /\ UNCHANGED <<families, servings, audit_logs, calls, faulty, eventName>>
  /\ UNCHANGED <<event_entries, directory>>

CouponEntryStatusActive(total_coupons) == "ACTIVE"

CouponEntryStatus(total_coupons) ==
  IF total_coupons > 0 THEN "ACTIVE" ELSE "FOOD_EXHAUSTED"

CouponCheckInInsert(s) ==
  /\ pc[s] = "cc_insert"
  /\ LET l == loc[s]
     IN \E err \in FaultChoices :
          IF err \/ families[l.fam] = 0
          THEN /\ Finish(s, l, "UNKNOWN_ERROR")
               /\ UNCHANGED <<event_entries, nextId>>
          ELSE IF \E r \in event_entries : r.event_id = l.evId /\ r.family_id = l.fam
               THEN /\ Finish(s, l, "DUPLICATE_ENTRY")
                    /\ UNCHANGED <<event_entries, nextId>>
               ELSE /\ event_entries' = event_entries \cup
                         {[id |-> nextId, event_id |-> l.evId, family_id |-> l.fam,
                           total_coupons |-> l.total, remaining_coupons |-> l.total,
                           status |-> CouponEntryStatus(l.total)]}
                    /\ nextId' = nextId + 1
                    /\ Goto(s, [l EXCEPT !.recId = nextId], "cc_audit")
  /\ UNCHANGED <<families, servings, audit_logs, calls, faulty, eventName>>
  /\ UNCHANGED <<events, directory>>

CouponCheckInAudit(s) ==
  /\ pc[s] = "cc_audit"
  /\ LET l == loc[s]
     IN /\ \E err \in FaultChoices :
             CouponLogAudit(CouponAuditRow(l.role, l.evId, l.fam, "CHECK_IN", NoVal,
                                           <<l.size, l.guests, l.total>>), err)
        /\ Finish(s, l, "success")
  /\ UNCHANGED <<families, servings, nextId, calls, faulty, eventName>>
  /\ UNCHANGED <<events, event_entries, directory>>

(***************************************************************************)
(* deleteEntry                                                             *)
(***************************************************************************)
UndoBlockedAnyRole(role, r) ==
  r.remaining_coupons # r.total_coupons

UndoBlocked(role, r) ==
  role # "admin" /\ r.remaining_coupons # r.total_coupons

DeleteCall(s) ==
  /\ CanCall(s)
  /\ \E role \in Roles, id \in EntryIds :
       Goto(s, [Loc0 EXCEPT !.op = "delete", !.role = role, !.recId = id], "cd_read")
  /\ calls' = calls + 1
  /\ UNCHANGED <<families, servings, audit_logs, nextId, faulty, eventName>>
  /\ UNCHANGED <<events, event_entries, directory>>

DeleteRead(s) ==
  /\ pc[s] = "cd_read"
  /\ LET l == loc[s]
     IN IF EntryById(l.recId) = {}
        THEN Finish(s, l, "NOT_FOUND")
        ELSE \E r \in EntryById(l.recId) :
               IF UndoBlocked(l.role, r)
               THEN Finish(s, l, "FOOD_SERVED")
               ELSE Goto(s, [l EXCEPT !.evId = r.event_id, !.fam = r.family_id,
                                      !.used = r.remaining_coupons], "cd_delete")
  /\ UNCHANGED <<families, servings, audit_logs, nextId, calls, faulty, eventName>>
  /\ UNCHANGED <<events, event_entries, directory>>

DeleteWrite(s) ==
  /\ pc[s] = "cd_delete"
  /\ LET l == loc[s]
     IN \E err \in FaultChoices :
          IF err
          THEN /\ Finish(s, l, "DELETE_FAILED")
               /\ UNCHANGED event_entries
          ELSE /\ event_entries' = event_entries \ EntryById(l.recId)
               /\ Goto(s, l, "cd_audit")
  /\ UNCHANGED <<families, servings, audit_logs, nextId, calls, faulty, eventName>>
  /\ UNCHANGED <<events, directory>>

DeleteAudit(s) ==
  /\ pc[s] = "cd_audit"
  /\ LET l == loc[s]
     IN /\ \E err \in FaultChoices :
             CouponLogAudit(CouponAuditRow(l.role, l.evId, l.fam, "UNDO_CHECK_IN",
                                           <<l.recId, l.used>>, NoVal), err)
        /\ Finish(s, l, "success")
  /\ UNCHANGED <<families, servings, nextId, calls, faulty, eventName>>
  /\ UNCHANGED <<events, event_entries, directory>>

(***************************************************************************)
(* consumeCoupons                                                          *)
(***************************************************************************)
ConsumeNextStatusKeep(nextRemaining, status) == status

ConsumeNextStatus(nextRemaining, status) ==
  IF nextRemaining = 0 THEN "FOOD_EXHAUSTED" ELSE status

\* the call arrives: consumeCoupons({entryId: id, quantity: q})
ConsumeCall(s) ==
  /\ CanCall(s)
  /\ \E id \in EntryIds, q \in Quantities :
       Goto(s, [Loc0 EXCEPT !.op = "consume", !.recId = id, !.qty = Max(0, q)], "cs_read")
  /\ calls' = calls + 1
  /\ UNCHANGED <<families, servings, audit_logs, nextId, faulty, eventName>>
  /\ UNCHANGED <<events, event_entries, directory>>

ConsumeRead(s) ==
  /\ pc[s] = "cs_read"
  /\ LET l == loc[s]
         deduction == l.qty
     IN IF EntryById(l.recId) = {}
        THEN Finish(s, l, "NOT_FOUND")
        ELSE \E r \in EntryById(l.recId) :
               IF r.status = "CLOSED"
               THEN Finish(s, l, "CLOSED")
               ELSE IF r.remaining_coupons < deduction
                    THEN Finish(s, l, "INSUFFICIENT_COUPONS")
                    ELSE Goto(s, [l EXCEPT
                                    !.evId = r.event_id, !.fam = r.family_id,
                                    !.used = r.remaining_coupons,
                                    !.newUsed = r.remaining_coupons - deduction,
                                    !.status = ConsumeNextStatus(
                                                 r.remaining_coupons - deduction,
                                                 r.status)],
                              "cs_write")
  /\ UNCHANGED <<families, servings, audit_logs, nextId, calls, faulty, eventName>>
  /\ UNCHANGED <<events, event_entries, directory>>

\* THE GUARDRAIL
ConsumeGuard(r, l) == r.id = l.recId /\ r.remaining_coupons = l.used

ConsumeWrite(s) ==
  /\ pc[s] = "cs_write"
  /\ LET l == loc[s]
     IN \E err \in FaultChoices :
          IF err
          THEN /\ Finish(s, l, "THROWN")
               /\ UNCHANGED event_entries
          ELSE IF \A r \in event_entries : ~ConsumeGuard(r, l)
               THEN /\ Finish(s, l, "CONCURRENCY_ERROR")
                    /\ UNCHANGED event_entries
               ELSE /\ event_entries' =
                         {IF ConsumeGuard(r, l)
                          THEN [r EXCEPT !.remaining_coupons = l.newUsed,
                                         !.status = l.status]
                          ELSE r : r \in event_entries}
                    /\ Goto(s, l, "cs_audit")
  /\ UNCHANGED <<families, servings, audit_logs, nextId, calls, faulty, eventName>>
  /\ UNCHANGED <<events, directory>>

ConsumeAudit(s) ==
  /\ pc[s] = "cs_audit"
  /\ LET l == loc[s]
     IN /\ \E err \in FaultChoices :
             CouponLogAudit(CouponAuditRow(l.role, l.evId, l.fam, "CONSUME",
                                           l.used, l.newUsed), err)
        /\ Finish(s, l, "success")
  /\ UNCHANGED <<families, servings, nextId, calls, faulty, eventName>>
  /\ UNCHANGED <<events, event_entries, directory>>

(***************************************************************************)
(* adjustCoupons                                                           *)
(***************************************************************************)
AdjustNextStatusKeep(nextRemaining, status) == status

AdjustNextStatus(nextRemaining, status) ==
  IF nextRemaining > 0 /\ status = "FOOD_EXHAUSTED"
  THEN "ACTIVE"
  ELSE IF nextRemaining = 0 THEN "FOOD_EXHAUSTED" ELSE status

\* the call arrives: adjustCoupons({role, entryId, adjustment, details})
CouponAdjustRequest(s, reason) ==
  /\ CanCall(s)
  /\ \E role \in Roles, id \in EntryIds, adj \in Adjustments :
       LET l == [Loc0 EXCEPT !.op = "adjust", !.role = role, !.recId = id,
                             !.qty = adj, !.reason = reason]
       IN IF AdminRequired(role)
          THEN Finish(s, l, "ADMIN_REQUIRED")
          ELSE Goto(s, l, "ca_read")
  /\ calls' = calls + 1
  /\ UNCHANGED <<families, servings, audit_logs, nextId, faulty, eventName>>
  /\ UNCHANGED <<events, event_entries, directory>>

\* an adjustment that states its reason
CouponAdjustCall(s) ==
  CouponAdjustRequest(s, Filled)

CouponAdjustRead(s) ==
  /\ pc[s] = "ca_read"
  /\ LET l == loc[s]
     IN IF EntryById(l.recId) = {}
        THEN Finish(s, l, "NOT_FOUND")
        ELSE \E r \in EntryById(l.recId) :
               LET nextTotal == Max(0, r.total_coupons + l.qty)
                   nextRemaining == Max(0, r.remaining_coupons + l.qty)
               IN Goto(s, [l EXCEPT
                             !.evId = r.event_id, !.fam = r.family_id,
                             !.total = r.total_coupons, !.used = r.remaining_coupons,
                             !.newTotal = nextTotal, !.newUsed = nextRemaining,
                             !.status = AdjustNextStatus(nextRemaining, r.status)],
                       "ca_write")
  /\ UNCHANGED <<families, servings, audit_logs, nextId, calls, faulty, eventName>>
  /\ UNCHANGED <<events, event_entries, directory>>

CouponAdjustWrite(s) ==
  /\ pc[s] = "ca_write"
  /\ LET l == loc[s]
     IN \E err \in FaultChoices :
          IF err
          THEN /\ Finish(s, l, "ADJUST_FAILED")
               /\ UNCHANGED event_entries
          ELSE /\ event_entries' =
                    {IF r.id = l.recId
                     THEN [r EXCEPT !.total_coupons = l.newTotal,
                                    !.remaining_coupons = l.newUsed,
                                    !.status = l.status]
                     ELSE r : r \in event_entries}
               /\ Goto(s, l, "ca_audit")
  /\ UNCHANGED <<families, servings, audit_logs, nextId, calls, faulty, eventName>>
  /\ UNCHANGED <<events, directory>>

CouponAdjustAudit(s) ==
  /\ pc[s] = "ca_audit"
  /\ LET l == loc[s]
     IN /\ \E err \in FaultChoices :
             CouponLogAudit(CouponAuditRow("admin", l.evId, l.fam, "ADJUST",
                                           <<l.total, l.used>>,
                                           <<l.newTotal, l.newUsed>>), err)
        /\ Finish(s, l, "success")
  /\ UNCHANGED <<families, servings, nextId, calls, faulty, eventName>>
  /\ UNCHANGED <<events, event_entries, directory>>

(***************************************************************************)
(* updateEntryStatus                                                       *)
(***************************************************************************)
StatusToSetAsked(newStatus, remaining_coupons) == newStatus

StatusToSet(newStatus, remaining_coupons) ==
  IF newStatus = "ACTIVE" /\ remaining_coupons = 0 THEN "FOOD_EXHAUSTED" ELSE newStatus

\* the call arrives: updateEntryStatus({role, entryId, newStatus})
StatusCall(s) ==
  /\ CanCall(s)
  /\ \E role \in Roles, id \in EntryIds, newStatus \in {"CLOSED", "ACTIVE"} :
       LET l == [Loc0 EXCEPT !.op = "status", !.role = role, !.recId = id,
                             !.status = newStatus]
       IN IF AdminRequired(role)
          THEN Finish(s, l, "ADMIN_REQUIRED")
          ELSE Goto(s, l, "cu_read")
  /\ calls' = calls + 1
  /\ UNCHANGED <<families, servings, audit_logs, nextId, faulty, eventName>>
  /\ UNCHANGED <<events, event_entries, directory>>

StatusRead(s) ==
  /\ pc[s] = "cu_read"
  /\ LET l == loc[s]
         newStatus == l.status
     IN IF EntryById(l.recId) = {}
        THEN Finish(s, l, "NOT_FOUND")
        ELSE \E r \in EntryById(l.recId) :
               Goto(s, [l EXCEPT
                          !.evId = r.event_id, !.fam = r.family_id,
                          !.applied = (newStatus = "CLOSED"),
                          !.used = r.remaining_coupons,
                          !.status = StatusToSet(newStatus, r.remaining_coupons)],
                    "cu_write")
  /\ UNCHANGED <<families, servings, audit_logs, nextId, calls, faulty, eventName>>
  /\ UNCHANGED <<events, event_entries, directory>>

StatusWrite(s) ==
  /\ pc[s] = "cu_write"
  /\ LET l == loc[s]
     IN \E err \in FaultChoices :
          IF err
          THEN /\ Finish(s, l, "STATUS_FAILED")
               /\ UNCHANGED event_entries
          ELSE /\ event_entries' =
                    {IF r.id = l.recId THEN [r EXCEPT !.status = l.status] ELSE r
                       : r \in event_entries}
               /\ Goto(s, l, "cu_audit")
  /\ UNCHANGED <<families, servings, audit_logs, nextId, calls, faulty, eventName>>
  /\ UNCHANGED <<events, directory>>

StatusAudit(s) ==
  /\ pc[s] = "cu_audit"
  /\ LET l == loc[s]
     IN /\ \E err \in FaultChoices :
             CouponLogAudit(CouponAuditRow("admin", l.evId, l.fam,
                                           IF l.applied THEN "CLOSE" ELSE "REOPEN",
                                           NoVal, l.status), err)
        /\ Finish(s, l, "success")
  /\ UNCHANGED <<families, servings, nextId, calls, faulty, eventName>>
  /\ UNCHANGED <<events, event_entries, directory>>

(***************************************************************************)
(* The sync that matches sheet rows to families by phone, then by name     *)
(* (src/unnamed/part_006 with src/src/lib/sheets.ts); table families is    *)
(* the variable directory                                                  *)
(***************************************************************************)
NoPhone == "null"

Surnames == {"shah"}

Heads == {"asha", "ASHA", "bela"}

Phones == {Blank, "P1"}

\* ilike without wildcards compares case-insensitively
Lower(x) == IF x = "ASHA" THEN "asha" ELSE x

ILike(x, pattern) == Lower(x) = Lower(pattern)

RawRow(surname, head_name, phone, size) ==
  [surname |-> surname, head_name |-> head_name, phone |-> phone, size |-> size]

RawRows ==
  {RawRow(sn, h, ph, 1) : sn \in Surnames, h \in Heads, ph \in Phones}
    \cup {RawRow(Blank, Blank, Blank, 1),
          RawRow(Blank, "asha", "P1", 1),
          RawRow("shah", Blank, "P1", 1),
          RawRow("shah", "asha", "P1", NaN)}

RawSheets == UNION {[1..n -> RawRows] : n \in 0..MaxRows}

RawSkipped(raw) == raw.surname = Blank /\ raw.head_name = Blank

RawValid(raw) ==
  /\ raw.surname # Blank
  /\ raw.head_name # Blank
  /\ ~(raw.size = NaN \/ raw.size < 1)

RECURSIVE SheetRowsOf(_)
SheetRowsOf(raws) ==
  IF raws = <<>> THEN <<>>
  ELSE LET raw == Head(raws)
           rest == SheetRowsOf(Tail(raws))
       IN IF RawValid(raw)
          THEN <<[surname |-> raw.surname, head_name |-> raw.head_name,
                  phone |-> IF raw.phone = Blank THEN NoPhone ELSE raw.phone,
                  family_size |-> raw.size]>> \o rest
          ELSE rest

SheetErrors(raws) ==
  Cardinality({k \in DOMAIN raws : ~RawSkipped(raws[k]) /\ ~RawValid(raws[k])})

\* unreachable is the API key / sheet id missing, a non-2xx answer or a throw
fetchRowsFromSheet(unreachable, raws) ==
  IF unreachable THEN [rows |-> <<>>, errors |-> 1]
  ELSE [rows |-> SheetRowsOf(raws), errors |-> SheetErrors(raws)]

\* .maybeSingle(): the row when exactly one matches, otherwise no data
maybeSingle(matches) ==
  IF Cardinality(matches) = 1 THEN (CHOOSE r \in matches : TRUE).id ELSE NoId

PhoneMatches(row) == {r \in directory : r.phone = row.phone}

NameMatches(row) ==
  {r \in directory : ILike(r.surname, row.surname) /\ ILike(r.head_name, row.head_name)}

\* where the loop body starts for a row: the phone query only if it has a phone
RowLabel(row) == IF row.phone # NoPhone THEN "m_phone" ELSE "m_name"

MatchFetch(s) ==
  /\ CanCall(s)
  /\ \E unreachable \in BOOLEAN, raws \in RawSheets :
       LET got == fetchRowsFromSheet(unreachable, raws)
           prev == loc[s]
           l == [Loc0 EXCEPT !.op = "match_sync", !.list = got.rows,
                             !.errs = got.errors, !.i = 1,
                             !.rerun = /\ prev.op = "match_sync"
                                       /\ prev.result = "success"
                                       /\ prev.list = got.rows
                                       /\ prev.dir0 = directory,
                             !.dir0 = directory]
       IN IF Len(got.rows) = 0
          THEN Finish(s, l, "NO_DATA")
          ELSE Goto(s, l, RowLabel(got.rows[1]))
  /\ calls' = calls + 1
  /\ UNCHANGED <<families, servings, audit_logs, nextId, faulty, eventName>>
  /\ UNCHANGED <<events, event_entries, directory>>

MatchPhone(s) ==
  /\ pc[s] = "m_phone"
  /\ LET l == loc[s]
         match == maybeSingle(PhoneMatches(l.list[l.i]))
     IN Goto(s, [l EXCEPT !.recId = match],
             IF match # NoId THEN "m_write" ELSE "m_name")
  /\ UNCHANGED <<families, servings, audit_logs, nextId, calls, faulty, eventName>>
  /\ UNCHANGED <<events, event_entries, directory>>

MatchName(s) ==
  /\ pc[s] = "m_name"
  /\ LET l == loc[s]
     IN Goto(s, [l EXCEPT !.recId = maybeSingle(NameMatches(l.list[l.i]))], "m_write")
  /\ UNCHANGED <<families, servings, audit_logs, nextId, calls, faulty, eventName>>
  /\ UNCHANGED <<events, event_entries, directory>>

Payload(id, row) ==
  [id |-> id, surname |-> row.surname, head_name |-> row.head_name,
   phone |-> row.phone, family_size |-> row.family_size]

\* the update or insert of one row; its result is not inspected
MatchWrite(s) ==
  /\ pc[s] = "m_write"
  /\ LET l == loc[s]
         row == l.list[l.i]
         next == [l EXCEPT !.i = l.i + 1, !.recId = NoId,
                           !.updated = IF l.recId # NoId THEN l.updated + 1 ELSE l.updated,
                           !.inserted = IF l.recId # NoId THEN l.inserted ELSE l.inserted + 1]
     IN /\ \E err \in FaultChoices :
             IF err
             THEN UNCHANGED <<directory, nextId>>
             ELSE IF l.recId # NoId
                  THEN /\ directory' = {IF r.id = l.recId THEN Payload(r.id, row) ELSE r
                                          : r \in directory}
                       /\ UNCHANGED nextId
                  ELSE /\ directory' = directory \cup {Payload(nextId, row)}
                       /\ nextId' = nextId + 1
        /\ Goto(s, next, IF l.i < Len(l.list) THEN RowLabel(l.list[l.i + 1]) ELSE "m_audit")
  /\ UNCHANGED <<families, servings, audit_logs, calls, faulty, eventName>>
  /\ UNCHANGED <<events, event_entries>>

SyncAuditRow(l) ==
  [actor_role |-> "system", event_name |-> "SYNC", action_type |-> "SYNC",
   details |-> <<Len(l.list), l.inserted, l.updated, l.errs>>]

\* the response keeps the rows synced and the directory the run left
MatchResponse(l, dir) ==
  [Loc0 EXCEPT !.op = l.op, !.result = "success", !.list = l.list, !.dir0 = dir]

MatchAudit(s) ==
  /\ pc[s] = "m_audit"
  /\ LET l == loc[s]
     IN /\ \E err \in FaultChoices :
             audit_logs' = IF err THEN audit_logs ELSE Append(audit_logs, SyncAuditRow(l))
        /\ pc' = [pc EXCEPT ![s] = "done"]
        /\ loc' = [loc EXCEPT ![s] = MatchResponse(l, directory)]
  /\ UNCHANGED <<families, servings, nextId, calls, faulty, eventName>>
  /\ UNCHANGED <<events, event_entries, directory>>

(***************************************************************************)
(* Specification of the plates ledger                                      *)
(***************************************************************************)
\* The directory as seeded or synced before the event; the two family ids are
\* interchangeable, so F1 is taken to be the larger family.
InitPlates ==
  /\ families \in {d \in [FamilyIds -> 0..MaxSize] : d["F1"] >= d["F2"]}
  /\ servings = {}
  /\ audit_logs = <<>>
  /\ events = {}
  /\ event_entries = {}
  /\ directory = {}
  /\ pc = [s \in Stations |-> "idle"]
  /\ loc = [s \in Stations |-> Loc0]
  /\ nextId = 1
  /\ calls = 0
  /\ faulty = FALSE
  /\ eventName = [s \in Stations |-> DEFAULT_EVENT]

NextPlates ==
  \E s \in Stations :
    \/ CheckInReadFamily(s)
    \/ CheckInReadExisting(s)
    \/ CheckInWrite(s)
    \/ CheckInAudit(s)
    \/ ServeReadFamily(s)
    \/ ServeReadServing(s)
    \/ ServeWrite(s)
    \/ ServeAudit(s)
    \/ AdjustCall(s)
    \/ AdjustRead(s)
    \/ AdjustWrite(s)
    \/ AdjustAudit(s)
    \/ ResetCount(s)
    \/ ResetDelete(s)
    \/ ResetAudit(s)

SpecPlates == InitPlates /\ [][NextPlates]_vars

(***************************************************************************)
(* Specification of the atomic-replace sync running beside the ledger,     *)
(* with storage calls that may fail                                        *)
(***************************************************************************)
InitSync ==
  /\ families = [f \in FamilyIds |-> 0]
  /\ servings = {}
  /\ audit_logs = <<>>
  /\ events = {}
  /\ event_entries = {}
  /\ directory = {}
  /\ pc = [s \in Stations |-> "idle"]
  /\ loc = [s \in Stations |-> Loc0]
  /\ nextId = 1
  /\ calls = 0
  /\ faulty = TRUE
  /\ eventName = [s \in Stations |-> DEFAULT_EVENT]

NextSync ==
  \E s \in Stations :
    \/ SyncFetch(s)
    \/ SyncCount(s)
    \/ SyncDelete(s)
    \/ SyncInsert(s)
    \/ SyncAudit(s)
    \/ CheckInReadFamily(s)
    \/ CheckInReadExisting(s)
    \/ CheckInWrite(s)
    \/ CheckInAudit(s)

SpecSync == InitSync /\ [][NextSync]_vars

(***************************************************************************)
(* Two stations serve the whole entitlement of one freshly checked-in      *)
(* family at the same time                                                 *)
(***************************************************************************)
FreshRecord(fam) ==
  [id |-> 1, event_name |-> "E1", family_id |-> fam, plates_used |-> 0,
   checked_in_at |-> TRUE]

InitRace ==
  /\ \E fam \in FamilyIds, n \in Sizes :
       /\ families = [f \in FamilyIds |-> IF f = fam THEN n ELSE 0]
       /\ servings = {FreshRecord(fam)}
       /\ audit_logs = <<AuditRow([Loc0 EXCEPT !.ev = "E1", !.applied = TRUE],
                                  "CHECK_IN", fam, NoVal, n, "s1")>>
  /\ events = {}
  /\ event_entries = {}
  /\ directory = {}
  /\ pc = [s \in Stations |-> "idle"]
  /\ loc = [s \in Stations |-> Loc0]
  /\ nextId = 2
  /\ calls = 0
  /\ faulty = FALSE
  /\ eventName = [s \in Stations |-> DEFAULT_EVENT]

RaceServe(s) ==
  /\ pc[s] = "idle"
  /\ \E r \in servings : ServeCall(s, r.event_name, r.family_id, families[r.family_id])

NextRace ==
  \E s \in Stations :
    \/ RaceServe(s)
    \/ ServeReadServing(s)
    \/ ServeWrite(s)
    \/ ServeAudit(s)

SpecRace == InitRace /\ [][NextRace]_vars

(***************************************************************************)
(* Specification of the coupons ledger                                     *)
(***************************************************************************)
InitCoupons ==
  /\ families = [f \in FamilyIds |-> 1]
  /\ servings = {}
  /\ audit_logs = <<>>
  /\ events = {}
  /\ event_entries = {}
  /\ directory = {}
  /\ pc = [s \in Stations |-> "idle"]
  /\ loc = [s \in Stations |-> Loc0]
  /\ nextId = 1
  /\ calls = 0
  /\ faulty = FALSE
  /\ eventName = [s \in Stations |-> DEFAULT_EVENT]

NextCoupons ==
  \E s \in Stations :
    \/ CouponCheckInEvent(s)
    \/ CouponEventInsert(s)
    \/ CouponCheckInInsert(s)
    \/ CouponCheckInAudit(s)
    \/ DeleteCall(s)
    \/ DeleteRead(s)
    \/ DeleteWrite(s)
    \/ DeleteAudit(s)
    \/ ConsumeCall(s)
    \/ ConsumeRead(s)
    \/ ConsumeWrite(s)
    \/ ConsumeAudit(s)
    \/ CouponAdjustCall(s)
    \/ CouponAdjustRead(s)
    \/ CouponAdjustWrite(s)
    \/ CouponAdjustAudit(s)
    \/ StatusCall(s)
    \/ StatusRead(s)
    \/ StatusWrite(s)
    \/ StatusAudit(s)

SpecCoupons == InitCoupons /\ [][NextCoupons]_vars

(***************************************************************************)
(* Specification of the operations on one checked-in entry of the coupons  *)
(* ledger                                                                  *)
(***************************************************************************)
InitEntry ==
  /\ families = [f \in FamilyIds |-> 1]
  /\ servings = {}
  /\ events = {1}
  /\ \E m \in 0..MaxSize, g \in 0..MaxGuests :
       /\ event_entries = {[id |-> 2, event_id |-> 1, family_id |-> "F1",
                            total_coupons |-> m + g, remaining_coupons |-> m + g,
                            status |-> CouponEntryStatus(m + g)]}
       /\ audit_logs = <<CouponAuditRow("volunteer", 1, "F1", "CHECK_IN", NoVal,
                                        <<m, g, m + g>>)>>
  /\ directory = {}
  /\ pc = [s \in Stations |-> "idle"]
  /\ loc = [s \in Stations |-> Loc0]
  /\ nextId = 3
  /\ calls = 1
  /\ faulty = FALSE
  /\ eventName = [s \in Stations |-> DEFAULT_EVENT]

NextEntry ==
  \E s \in Stations :
    \/ DeleteCall(s)
    \/ DeleteRead(s)
    \/ DeleteWrite(s)
    \/ DeleteAudit(s)
    \/ ConsumeCall(s)
    \/ ConsumeRead(s)
    \/ ConsumeWrite(s)
    \/ ConsumeAudit(s)
    \/ CouponAdjustCall(s)
    \/ CouponAdjustRead(s)
    \/ CouponAdjustWrite(s)
    \/ CouponAdjustAudit(s)
    \/ StatusCall(s)
    \/ StatusRead(s)
    \/ StatusWrite(s)
    \/ StatusAudit(s)

(***************************************************************************)
(* The admin page (src/app/admin/page.tsx): the session an admin station   *)
(* works on is the page's eventName, kept in that browser's localStorage   *)
(* under current_event_name.  The entry and food pages pass DEFAULT_EVENT. *)
(***************************************************************************)
handleSwitchEvent(s) ==
  /\ Idle(s)
  /\ \E name \in EventNames \ {eventName[s]} :
       eventName' = [eventName EXCEPT ![s] = name]
  /\ UNCHANGED <<families, servings, audit_logs, pc, loc, nextId, calls, faulty>>
  /\ UNCHANGED <<events, event_entries, directory>>

\* newEventName typed into the modal, trimmed and not empty
handleStartNewEvent(s) ==
  /\ Idle(s)
  /\ \E name \in EventNames :
       eventName' = [eventName EXCEPT ![s] = name]
  /\ UNCHANGED <<families, servings, audit_logs, pc, loc, nextId, calls, faulty>>
  /\ UNCHANGED <<events, event_entries, directory>>

handleReset(s) ==
  ResetCall(s, eventName[s])

InitSession ==
  /\ families = [f \in FamilyIds |-> 1]
  /\ servings = {}
  /\ audit_logs = << >>
  /\ events = {}
  /\ event_entries = {}
  /\ directory = {}
  /\ pc = [s \in Stations |-> "idle"]
  /\ loc = [s \in Stations |-> Loc0]
  /\ nextId = 1
  /\ calls = 0
  /\ faulty = FALSE
  /\ eventName = [s \in Stations |-> DEFAULT_EVENT]

NextSession ==
  \E s \in Stations :
    \/ handleSwitchEvent(s)
    \/ handleStartNewEvent(s)
    \/ handleReset(s)
    \/ ResetDelete(s)
    \/ ResetAudit(s)
    \/ CheckInReadFamily(s)
    \/ CheckInReadExisting(s)
    \/ CheckInWrite(s)
    \/ CheckInAudit(s)

SpecSession == InitSession /\ [][NextSession]_vars

SpecEntry == InitEntry /\ [][NextEntry]_vars

(***************************************************************************)
(* The plates ledger holding one fresh record; admins and volunteers       *)
(* adjust it, with and without a reason.                                   *)
(***************************************************************************)
AdjustAnyReason(s) ==
  \E reason \in Reasons : AdjustRequest(s, reason)

NextReason ==
  \E s \in Stations :
    \/ AdjustAnyReason(s)
    \/ AdjustRead(s)
    \/ AdjustWrite(s)
    \/ AdjustAudit(s)

SpecReason == InitRace /\ [][NextReason]_vars

(***************************************************************************)
(* The coupons ledger after a first checkInFamily that created the event   *)
(* and then failed on a family id that is not in the directory; the        *)
(* stations check families in and undo check-ins.                          *)
(***************************************************************************)
InitCheckIn ==
  /\ families = [f \in FamilyIds |-> IF f = "F1" THEN 1 ELSE 0]
  /\ servings = {}
  /\ audit_logs = << >>
  /\ events = {1}
  /\ event_entries = {}
  /\ directory = {}
  /\ pc = [s \in Stations |-> "idle"]
  /\ loc = [s \in Stations |-> Loc0]
  /\ nextId = 2
  /\ calls = 1
  /\ faulty = FALSE
  /\ eventName = [s \in Stations |-> DEFAULT_EVENT]

NextCheckIn ==
  \E s \in Stations :
    \/ CouponCheckInEvent(s)
    \/ CouponCheckInInsert(s)
    \/ CouponCheckInAudit(s)
    \/ DeleteCall(s)
    \/ DeleteRead(s)
    \/ DeleteWrite(s)
    \/ DeleteAudit(s)

SpecCheckIn == InitCheckIn /\ [][NextCheckIn]_vars

(***************************************************************************)
(* The coupons ledger holding one entry that was checked in and then       *)
(* served u coupons in one consumeCoupons call; the stations undo and      *)
(* serve.                                                                  *)
(***************************************************************************)
InitUndo ==
  /\ families = [f \in FamilyIds |-> 1]
  /\ servings = {}
  /\ events = {1}
  /\ \E m \in 0..MaxSize, g \in 0..MaxGuests :
       \E u \in 0..(m + g) :
         /\ event_entries =
              {[id |-> 2, event_id |-> 1, family_id |-> "F1",
                total_coupons |-> m + g, remaining_coupons |-> m + g - u,
                status |-> IF u = 0 THEN CouponEntryStatus(m + g)
                           ELSE ConsumeNextStatus(m + g - u, CouponEntryStatus(m + g))]}
         /\ audit_logs =
              <<CouponAuditRow("volunteer", 1, "F1", "CHECK_IN", NoVal, <<m, g, m + g>>)>>
              \o (IF u = 0 THEN << >>
                  ELSE <<CouponAuditRow(Loc0.role, 1, "F1", "CONSUME", m + g, m + g - u)>>)
  /\ directory = {}
  /\ pc = [s \in Stations |-> "idle"]
  /\ loc = [s \in Stations |-> Loc0]
  /\ nextId = 3
  /\ calls = 1
  /\ faulty = FALSE
  /\ eventName = [s \in Stations |-> DEFAULT_EVENT]

NextUndo ==
  \E s \in Stations :
    \/ DeleteCall(s)
    \/ DeleteRead(s)
    \/ DeleteWrite(s)
    \/ DeleteAudit(s)
    \/ ConsumeCall(s)
    \/ ConsumeRead(s)
    \/ ConsumeWrite(s)
    \/ ConsumeAudit(s)

SpecUndo == InitUndo /\ [][NextUndo]_vars

(***************************************************************************)
(* The same ledger; admins close and reopen the entry while the stations   *)
(* serve.                                                                  *)
(***************************************************************************)
NextStatus ==
  \E s \in Stations :
    \/ StatusCall(s)
    \/ StatusRead(s)
    \/ StatusWrite(s)
    \/ StatusAudit(s)
    \/ ConsumeCall(s)
    \/ ConsumeRead(s)
    \/ ConsumeWrite(s)
    \/ ConsumeAudit(s)

SpecStatus == InitUndo /\ [][NextStatus]_vars

(***************************************************************************)
(* Specification of the matching sync, from the directory that a first     *)
(* sync of a one-row sheet by station s1 leaves                            *)
(***************************************************************************)
InitMatch ==
  /\ families = [f \in FamilyIds |-> 0]
  /\ servings = {}
  /\ events = {}
  /\ event_entries = {}
  /\ \E raw \in {r \in RawRows : RawValid(r)} :
       LET l == [Loc0 EXCEPT !.op = "match_sync", !.list = SheetRowsOf(<<raw>>),
                             !.inserted = 1]
           dir == {Payload(1, l.list[1])}
       IN /\ directory = dir
          /\ audit_logs = <<SyncAuditRow(l)>>
          /\ loc = [s \in Stations |-> IF s = "s1" THEN MatchResponse(l, dir) ELSE Loc0]
  /\ pc = [s \in Stations |-> IF s = "s1" THEN "done" ELSE "idle"]
  /\ nextId = 2
  /\ calls = 1
  /\ faulty = FALSE
  /\ eventName = [s \in Stations |-> DEFAULT_EVENT]

NextMatch ==
  \E s \in Stations :
    \/ MatchFetch(s)
    \/ MatchPhone(s)
    \/ MatchName(s)
    \/ MatchWrite(s)
    \/ MatchAudit(s)

SpecMatch == InitMatch /\ [][NextMatch]_vars

(***************************************************************************)
(* The batched sync (src/src/db/schema.sql 258-546): the validated rows    *)
(* are upserted on family_id, one statement per batch; table families is   *)
(* the variable directory and a row's id is its family_id                  *)
(***************************************************************************)
\* 150 in the source, scaled down so that a sheet of MaxRows rows makes
\* several batches
BATCH_SIZE == 1

Min(a, b) == IF a <= b THEN a ELSE b

SheetLine(family_id, surname, head_name, family_size, status) ==
  [family_id |-> family_id, surname |-> surname, head_name |-> head_name,
   phone |-> NoPhone, family_size |-> family_size, status |-> status]

SheetLines ==
  {SheetLine(f, Filled, Filled, n, Blank) : f \in FamilyIds, n \in Sizes}
    \cup {SheetLine(Blank, Filled, Filled, 1, Blank),
          SheetLine("F1", Blank, Filled, 1, Blank),
          SheetLine("F1", Filled, Blank, 1, Blank),
          SheetLine("F1", Filled, Filled, 0, Blank),
          SheetLine("F1", Filled, Filled, NaN, Blank),
          SheetLine("F2", Filled, Filled, 1, "bogus")}

LineSheets == UNION {[1..n -> SheetLines] : n \in 0..MaxRows}

\* the size test of the validation loop with the test dropped
SizeValidAny(family_size) == TRUE

\* isNaN(family_size) || family_size < 1 skips the row
SizeValid(family_size) == ~(family_size = NaN \/ family_size < 1)

\* the rows the validation loop pushes to validRows
LineValid(line) ==
  /\ line.family_id # Blank
  /\ line.surname # Blank
  /\ line.head_name # Blank
  /\ SizeValid(line.family_size)

\* status_raw.toLowerCase() || 'active', anything else defaults to 'active'
LineStatus(line) ==
  IF line.status \in {"active", "inactive"} THEN line.status ELSE "active"

RECURSIVE ValidLines(_)
ValidLines(lines) ==
  IF lines = <<>> THEN <<>>
  ELSE LET line == Head(lines)
           rest == ValidLines(Tail(lines))
       IN IF LineValid(line)
          THEN <<[line EXCEPT !.status = LineStatus(line)]>> \o rest
          ELSE rest

\* stats.skipped: one per row the loop skips
LinesSkipped(lines) == Cardinality({k \in DOMAIN lines : ~LineValid(lines[k])})

\* errors pushed by the loop: one per skipped row, one per defaulted status
LineErrors(lines) ==
  LinesSkipped(lines)
    + Cardinality({k \in DOMAIN lines :
                     /\ LineValid(lines[k])
                     /\ lines[k].status \notin {Blank, "active", "inactive"}})

\* validRows.slice(i, i + BATCH_SIZE) of the batch with index b (from 1)
BatchOf(list, b) ==
  SubSeq(list, (b - 1) * BATCH_SIZE + 1, Min(b * BATCH_SIZE, Len(list)))

\* INSERT ... ON CONFLICT (family_id) DO UPDATE cannot affect a row twice
BatchClash(batch) ==
  \E j, k \in DOMAIN batch : j # k /\ batch[j].family_id = batch[k].family_id

UpsertRow(line) ==
  [id |-> line.family_id, surname |-> line.surname, head_name |-> line.head_name,
   phone |-> line.phone, family_size |-> line.family_size, status |-> line.status]

\* upsert(batch, { onConflict: 'family_id' })
Upserted(dir, batch) ==
  {r \in dir : \A k \in DOMAIN batch : batch[k].family_id # r.id}
    \cup {UpsertRow(batch[k]) : k \in DOMAIN batch}

\* the caller keeps whether the run reported success
BatchResponse(l, res) ==
  [Loc0 EXCEPT !.op = l.op, !.result = res]

\* the handler up to its first storage call.  source: the environment lacks
\* the sheet id or the credentials ("noenv"), the Sheets API call throws
\* ("unreachable"), or the rows are read
BatchFetch(s) ==
  /\ CanCall(s)
  /\ LET l == [Loc0 EXCEPT !.op = "batch_sync"]
     IN \/ /\ pc' = [pc EXCEPT ![s] = "done"]
           /\ \E source \in {"noenv", "unreachable"} :
                loc' = [loc EXCEPT ![s] =
                          IF source = "noenv"
                          THEN BatchResponse([l EXCEPT !.sync.errors = 1, !.errs = 1],
                                             "NO_ENV")
                          ELSE BatchResponse([l EXCEPT !.errs = 1], "FATAL")]
        \/ \E lines \in LineSheets :
             LET read == [l EXCEPT !.sync.total = Len(lines),
                                   !.sync.skipped = LinesSkipped(lines),
                                   !.errs = LineErrors(lines),
                                   !.list = ValidLines(lines), !.i = 1]
             IN IF Len(lines) = 0
                THEN /\ pc' = [pc EXCEPT ![s] = "done"]
                     /\ loc' = [loc EXCEPT ![s] =
                                  BatchResponse([l EXCEPT !.errs = 1], "EMPTY")]
                ELSE Goto(s, read, IF Len(read.list) > 0 THEN "b_upsert" ELSE "b_audit")
  /\ calls' = calls + 1
  /\ UNCHANGED <<families, servings, audit_logs, nextId, faulty, eventName>>
  /\ UNCHANGED <<events, event_entries, directory>>

\* stats.errors += batch.length with the addition dropped
UpsertErrorsDropped(errors, batch) == errors

UpsertErrors(errors, batch) == errors + Len(batch)

\* one pass of the batch loop
BatchUpsert(s) ==
  /\ pc[s] = "b_upsert"
  /\ LET l == loc[s]
         batch == BatchOf(l.list, l.i)
         next == IF l.i * BATCH_SIZE < Len(l.list) THEN "b_upsert" ELSE "b_audit"
     IN \E err \in FaultChoices :
          IF err \/ BatchClash(batch)
          THEN /\ UNCHANGED directory
               /\ Goto(s, [l EXCEPT !.i = l.i + 1, !.errs = l.errs + 1,
                                    !.sync.errors = UpsertErrors(l.sync.errors, batch)],
                       next)
          ELSE /\ directory' = Upserted(directory, batch)
               /\ Goto(s, [l EXCEPT !.i = l.i + 1,
                                    !.sync.synced = l.sync.synced + Len(batch)],
                       next)
  /\ UNCHANGED <<families, servings, audit_logs, nextId, calls, faulty, eventName>>
  /\ UNCHANGED <<events, event_entries>>

\* of the summary (details, after_value: stats) the row keeps the synced count
BatchAuditRow(l) ==
  [actor_role |-> "system", event_name |-> "SYNC", action_type |-> "SYNC",
   after_value |-> l.sync.synced]

\* the audit insert, whose result is not inspected, and the response
BatchAudit(s) ==
  /\ pc[s] = "b_audit"
  /\ LET l == loc[s]
     IN /\ \E err \in FaultChoices :
             audit_logs' = IF err THEN audit_logs ELSE Append(audit_logs, BatchAuditRow(l))
        /\ pc' = [pc EXCEPT ![s] = "done"]
        /\ loc' = [loc EXCEPT ![s] =
                     BatchResponse(l, IF l.sync.errors = 0 THEN "success" ELSE "failure")]
  /\ UNCHANGED <<families, servings, nextId, calls, faulty, eventName>>
  /\ UNCHANGED <<events, event_entries, directory>>

(***************************************************************************)
(* Specification of the batched sync with storage calls that may fail,     *)
(* from the directory that a first sync of the one row (F1, size 1)        *)
(* leaves.  The sync is started by hand from the admin panel; here one     *)
(* station starts it, one run after the other.                             *)
(***************************************************************************)
SyncStation == "s1"

InitBatch ==
  /\ families = [f \in FamilyIds |-> 0]
  /\ servings = {}
  /\ events = {}
  /\ event_entries = {}
  /\ LET lines == <<SheetLine("F1", Filled, Filled, 1, Blank)>>
         l == [Loc0 EXCEPT !.op = "batch_sync", !.list = ValidLines(lines),
                           !.sync.total = 1, !.sync.synced = 1]
     IN /\ directory = Upserted({}, l.list)
        /\ audit_logs = <<BatchAuditRow(l)>>
        /\ loc = [s \in Stations |->
                    IF s = SyncStation THEN BatchResponse(l, "success") ELSE Loc0]
  /\ pc = [s \in Stations |-> IF s = SyncStation THEN "done" ELSE "idle"]
  /\ nextId = 1
  /\ calls = 1
  /\ faulty = TRUE
  /\ eventName = [s \in Stations |-> DEFAULT_EVENT]

NextBatch ==
  \/ BatchFetch(SyncStation)
  \/ BatchUpsert(SyncStation)
  \/ BatchAudit(SyncStation)

SpecBatch == InitBatch /\ [][NextBatch]_vars

(***************************************************************************)
(* Properties                                                              *)
(***************************************************************************)
SyncLabels == {"sy_count", "sy_delete", "sy_insert", "sy_audit"}

Present == {f \in FamilyIds : families[f] # 0}

\* C1: for every entitlement record, 0 <= used <= entitled in every reachable
\* state (plates ledger: used = plates_used, entitled = the family's
\* members_count).
C1_UsedWithinEntitled ==
  \A r \in servings : 0 <= r.plates_used /\ r.plates_used <= families[r.family_id]

\* C2: two concurrent Serve calls on a freshly checked-in record, each asking
\* for the whole entitlement: used never exceeds entitled, and once both have
\* returned exactly one returned success, the other CONCURRENCY or
\* INSUFFICIENT_PLATES, and used equals entitled.
C2_ExactlyOneServeWins ==
  /\ \A r \in servings : r.plates_used <= families[r.family_id]
  /\ (\A s \in Stations : pc[s] = "done") =>
       /\ \E w \in Stations :
            /\ loc[w].result = "success"
            /\ \A o \in Stations \ {w} :
                 loc[o].result \in {"CONCURRENCY", "INSUFFICIENT_PLATES"}
       /\ \A r \in servings : r.plates_used = families[r.family_id]

\* C2 witness: both calls have returned and the loser lost at the conditional
\* write.
C2_Witness ==
  /\ \A s \in Stations : pc[s] = "done"
  /\ \E s \in Stations : loc[s].result = "CONCURRENCY"
  /\ \E s \in Stations : loc[s].result = "success"

\* C3: Serve writes its new used value only if the stored used still equals the
\* value it read; when the stored value differs (or the row is gone) at the
\* conditional write, the call returns CONCURRENCY, the ledger is unchanged
\* and the call ends without another write attempt.
C3_ServeConditionalWrite ==
  [][\A s \in Stations :
       (pc[s] = "sv_write" /\ pc'[s] # "sv_write") =>
         LET l == loc[s]
             same == \E r \in servings : r.id = l.recId /\ r.plates_used = l.used
         IN /\ pc'[s] \in {"done", "sv_audit"}
            /\ ~same => /\ servings' = servings
                        /\ pc'[s] = "done"
                        /\ loc'[s].result = "CONCURRENCY"
            /\ servings' # servings =>
                 /\ same
                 /\ \E r \in servings :
                      /\ r.id = l.recId
                      /\ servings' = (servings \ {r})
                                       \cup {[r EXCEPT !.plates_used = l.newUsed]}
            /\ loc'[s].writes <= 1]_vars

\* C3 witness: a Serve call has returned CONCURRENCY.
C3_Witness ==
  \E s \in Stations :
    pc[s] = "done" /\ loc[s].op = "serve" /\ loc[s].result = "CONCURRENCY"

\* C4: an audit entry is appended only after the operation's state mutation
\* has committed; no entry is appended for a mutation that was rejected or
\* did not apply.
C4_AuditOnlyAfterCommit ==
  \A i \in DOMAIN audit_logs : audit_logs[i].applied

\* C5: for a (session, family), a CheckIn call returns success only if it
\* created the record; every other call, sequential or concurrent, returns
\* ALREADY_CHECKED_IN.
C5_OneCheckInSucceeds ==
  [][\A s \in Stations :
       (pc[s] = "ci_audit" /\ pc'[s] = "done" /\ loc'[s].result = "success")
         => loc[s].applied]_vars

\* The boundary of consumeCoupons at one step of station s on entry r.  The
\* quantity is compared with the remaining count the call reads; the write
\* is covered when the entry still holds that count.
ServeAtBoundary(s, r) ==
  /\ (pc[s] = "cs_read" /\ pc'[s] # "cs_read") =>
       /\ (loc[s].qty >= 1 /\ loc[s].qty = r.remaining_coupons) => pc'[s] = "cs_write"
       /\ (loc[s].qty = r.remaining_coupons + 1) =>
            /\ pc'[s] = "done"
            /\ loc'[s].result = "INSUFFICIENT_COUPONS"
            /\ event_entries' = event_entries
            /\ audit_logs' = audit_logs
  /\ (/\ pc[s] = "cs_write" /\ pc'[s] # "cs_write"
      /\ loc[s].qty >= 1
      /\ loc[s].qty = loc[s].used
      /\ r.remaining_coupons = loc[s].used) =>
            /\ pc'[s] = "cs_audit"
            /\ event_entries' = (event_entries \ {r}) \cup
                 {[r EXCEPT !.remaining_coupons = 0, !.status = "FOOD_EXHAUSTED"]}
  /\ (pc[s] = "cs_audit" /\ pc'[s] # "cs_audit") =>
       /\ pc'[s] = "done"
       /\ loc'[s].result = "success"

\* C6 as stated: Serve with quantity = remaining succeeds, leaves remaining 0
\* (used = entitled) and status FOOD_EXHAUSTED; Serve with quantity =
\* remaining + 1 fails with INSUFFICIENT_COUPONS and leaves the entries and
\* the audit log unchanged; for every entry.
C6_ServeBoundary ==
  [][\A s \in Stations : \A r \in EntryById(loc[s].recId) : ServeAtBoundary(s, r)]_vars

\* C6 amended: the same for every entry whose status is not CLOSED; on a
\* CLOSED entry Serve fails with CLOSED and leaves the entries and the audit
\* log unchanged.
C6_ServeBoundaryUnlessClosed ==
  [][\A s \in Stations : \A r \in EntryById(loc[s].recId) :
       /\ (r.status # "CLOSED" \/ pc[s] # "cs_read") => ServeAtBoundary(s, r)
       /\ (r.status = "CLOSED" /\ pc[s] = "cs_read" /\ pc'[s] # "cs_read") =>
            /\ pc'[s] = "done"
            /\ loc'[s].result = "CLOSED"
            /\ event_entries' = event_entries
            /\ audit_logs' = audit_logs]_vars

\* C6 witness: one call has served exactly the remaining coupons and
\* exhausted the entry, another was refused for asking too much.
C6_Witness ==
  \E s \in Stations, o \in Stations :
    /\ pc[s] = "cs_audit"
    /\ loc[s].qty >= 1
    /\ loc[s].qty = loc[s].used
    /\ \E r \in EntryById(loc[s].recId) :
         r.remaining_coupons = 0 /\ r.status = "FOOD_EXHAUSTED" /\ r.total_coupons >= 1
    /\ pc[o] = "done"
    /\ loc[o].result = "INSUFFICIENT_COUPONS"

\* C7: a sync that runs again with the rows of the station's previous sync, on
\* the directory that sync left and with no other call made meanwhile,
\* inserts no family and leaves the directory as it found it.
C7_ReconcileIdempotent ==
  \A s \in Stations :
    (/\ pc[s] = "m_audit"
     /\ loc[s].rerun
     /\ \A o \in Stations \ {s} : pc[o] = "idle") =>
       /\ loc[s].inserted = 0
       /\ directory = loc[s].dir0

\* C8: a reconcile run changes only the family directory: every entitlement
\* record is as it was before the run and the audit log differs at most by
\* one appended SYNC entry.
C8_SyncLeavesLedger ==
  [][(\E s \in Stations : pc'[s] # pc[s] /\ loc'[s].op = "sync") =>
       /\ servings' = servings
       /\ \/ audit_logs' = audit_logs
          \/ /\ Len(audit_logs') = Len(audit_logs) + 1
             /\ SubSeq(audit_logs', 1, Len(audit_logs)) = audit_logs
             /\ audit_logs'[Len(audit_logs')].action_type = "SYNC"]_vars

\* C9: when the source is unreachable or a storage step of the sync fails, the
\* run reports failure and the directory is left as it was before the call
\* (stated for a station whose calls are the only ones made: the directory
\* holds as many families as the run counted before it started writing).
C9_FailedSyncKeepsDirectory ==
  [][\A s \in Stations :
       (/\ \A o \in Stations \ {s} : pc[o] = "idle"
        /\ pc[s] \in SyncLabels /\ pc[s] # "sy_count" /\ pc'[s] = "done"
        /\ loc'[s].result # "success")
         => Cardinality({f \in FamilyIds : families'[f] # 0}) = loc[s].cnt]_vars

\* C10: the audit log is append-only: no step changes or removes an entry
\* that exists.
C10_AuditAppendOnly ==
  [][\A i \in DOMAIN audit_logs :
       i \in DOMAIN audit_logs' /\ audit_logs'[i] = audit_logs[i]]_vars

\* the steps at which a ledger operation, its storage mutation done, writes
\* its audit entry and returns
LedgerAuditLabels ==
  {"ci_audit", "sv_audit", "aj_audit", "rs_audit",
   "cc_audit", "cd_audit", "cs_audit", "ca_audit", "cu_audit"}

\* C11: a ledger operation that has committed its state change returns
\* success only together with its one audit entry: the step that returns
\* success appends exactly one entry to the audit log.
C11_SuccessHasAudit ==
  [][\A s \in Stations :
       (pc[s] \in LedgerAuditLabels /\ pc'[s] = "done" /\ loc'[s].result = "success") =>
          Len(audit_logs') = Len(audit_logs) + 1]_vars


\* the record a station's undo call refers to
UndoRecord(s) ==
  EntryById(loc[s].recId)

\* C12: an undo by a volunteer on a record with coupons already used returns
\* FOOD_SERVED and leaves the records and the audit log as they were; an undo
\* by a volunteer on an untouched record, or by an admin on any record, goes
\* on to delete the record, and once the delete is made returns success.
C12_UndoCheckIn ==
  [][\A s \in Stations :
       /\ (pc[s] = "cd_read" /\ pc'[s] # "cd_read" /\ UndoRecord(s) # {}) =>
            \A r \in UndoRecord(s) :
              IF loc[s].role = "volunteer" /\ r.remaining_coupons < r.total_coupons
              THEN /\ pc'[s] = "done" /\ loc'[s].result = "FOOD_SERVED"
                   /\ event_entries' = event_entries
                   /\ audit_logs' = audit_logs
              ELSE pc'[s] = "cd_delete"
       /\ (pc[s] = "cd_delete" /\ pc'[s] # "cd_delete") =>
            /\ pc'[s] = "cd_audit"
            /\ EntryById(loc[s].recId)' = {}
       /\ (pc[s] = "cd_audit" /\ pc'[s] # "cd_audit") =>
            /\ pc'[s] = "done" /\ loc'[s].result = "success"
            /\ EntryById(loc[s].recId)' = {}]_vars

\* a volunteer's undo has been refused on a used record, and an undo has
\* deleted a record
C12_Witness ==
  /\ \E s \in Stations : pc[s] = "done" /\ loc[s].op = "delete" /\ loc[s].result = "FOOD_SERVED"
  /\ \E s \in Stations : pc[s] = "done" /\ loc[s].op = "delete" /\ loc[s].result = "success"
  /\ event_entries = {}

\* C13: one session is current: every station's page names the same event,
\* and a ledger call in flight at any station is made for that event.
C13_OneCurrentSession ==
  \A s \in Stations, u \in Stations :
    /\ eventName[s] = eventName[u]
    /\ (pc[s] \notin {"idle", "done"}) => loc[s].ev = eventName[u]

\* C14: a reset of an event that has records, when it returns success, has
\* appended exactly one RESET audit entry whose snapshot holds the aggregate
\* counts of the records it removed (families checked in, plates served,
\* plates entitled), and no record of that event remains.
C14_ResetArchivesCounts ==
  [][\A s \in Stations :
       (/\ pc[s] = "rs_audit" /\ pc'[s] = "done"
        /\ loc'[s].result = "success"
        /\ loc[s].stats.familiesCheckedIn > 0) =>
          /\ Len(audit_logs') = Len(audit_logs) + 1
          /\ audit_logs'[Len(audit_logs')].action_type = "RESET"
          /\ audit_logs'[Len(audit_logs')].before_value = loc[s].stats
          /\ \A r \in servings' : r.event_name # loc[s].ev]_vars

\* the audit entries of kind RESET, and the servings rows they report cleared
ResetEntries ==
  {i \in 1..Len(audit_logs) : audit_logs[i].action_type = "RESET"}

ArchivedRows ==
  SumOver(ResetEntries, [i \in ResetEntries |-> audit_logs[i].before_value.servings_count])

\* C15: resets are serialized, so a record is archived by one RESET entry
\* only: the RESET entries together report no more records than were ever
\* created.
C15_ArchivedOnce ==
  ArchivedRows <= nextId - 1

\* the entries a step adds to event_entries
CreatedEntries ==
  event_entries' \ event_entries

AdminOps == {"adjust", "status"}

\* the step is a call that arrives at station s
CallBy(s) ==
  /\ Idle(s)
  /\ calls' = calls + 1
  /\ pc'[s] # pc[s] \/ loc'[s] # loc[s]

\* C18: an Adjust or SetStatus call of a non-admin ends in the step it
\* arrives in, with ADMIN_REQUIRED, before any storage call: no such call is
\* ever in flight with a role other than admin, and a call that ends on
\* arrival is refused and leaves records and audit log unchanged.
C18_NonAdminDenied ==
  [][\A s \in Stations :
       /\ (pc'[s] \notin {"idle", "done"} /\ loc'[s].op \in AdminOps) =>
            loc'[s].role = "admin"
       /\ (CallBy(s) /\ pc'[s] = "done" /\ loc'[s].op \in AdminOps) =>
            /\ loc'[s].result = "ADMIN_REQUIRED"
            /\ event_entries' = event_entries
            /\ servings' = servings
            /\ audit_logs' = audit_logs]_vars

\* an adjustment and a status change have both been refused, the entry still
\* there
C18_Witness ==
  /\ \E s \in Stations :
       pc[s] = "done" /\ loc[s].op = "adjust" /\ loc[s].result = "ADMIN_REQUIRED"
  /\ \E s \in Stations :
       pc[s] = "done" /\ loc[s].op = "status" /\ loc[s].result = "ADMIN_REQUIRED"
  /\ event_entries # {}

\* the status an adjustment is to leave: exhausted with nothing remaining,
\* re-opened from exhausted when something remains, else as it was
StatusAfterAdjust(remaining, status) ==
  IF remaining = 0 THEN "FOOD_EXHAUSTED"
  ELSE IF status = "FOOD_EXHAUSTED" THEN "ACTIVE" ELSE status

\* the write of an adjustment stores what its read computed, in the entry it
\* read
AdjustWritesComputed(s) ==
  (pc[s] = "ca_write" /\ pc'[s] = "ca_audit") =>
    \A r \in EntryById(loc[s].recId)' :
      /\ r.total_coupons = loc[s].newTotal
      /\ r.remaining_coupons = loc[s].newUsed
      /\ r.status = loc[s].status

\* C19: an adjustment by delta that goes on to succeed sets used (entitled -
\* remaining) to max(0, used + delta), re-opens an exhausted record when
\* the result leaves remaining > 0, and leaves a record with remaining = 0
\* exhausted.
C19_AdjustSetsUsed ==
  [][\A s \in Stations :
       /\ (pc[s] = "ca_read" /\ pc'[s] = "ca_write") =>
            \A r \in EntryById(loc[s].recId) :
              /\ loc'[s].newTotal - loc'[s].newUsed =
                   Max(0, (r.total_coupons - r.remaining_coupons) + loc[s].qty)
              /\ loc'[s].status = StatusAfterAdjust(loc'[s].newUsed, r.status)
       /\ AdjustWritesComputed(s)]_vars

\* C19, amended: an adjustment by delta that goes on to succeed sets
\* entitled to max(0, entitled + delta) and remaining to max(0, remaining +
\* delta), from the values it read; it re-opens an exhausted record when the
\* result leaves remaining > 0, and leaves a record with remaining = 0
\* exhausted.
C19_AdjustShiftsBoth ==
  [][\A s \in Stations :
       /\ (pc[s] = "ca_read" /\ pc'[s] = "ca_write") =>
            \A r \in EntryById(loc[s].recId) :
              /\ loc'[s].newTotal = Max(0, r.total_coupons + loc[s].qty)
              /\ loc'[s].newUsed = Max(0, r.remaining_coupons + loc[s].qty)
              /\ loc'[s].status = StatusAfterAdjust(loc'[s].newUsed, r.status)
       /\ AdjustWritesComputed(s)]_vars

\* an adjustment has re-opened an exhausted entry
C19_Witness ==
  \E s \in Stations, r \in event_entries :
    /\ pc[s] = "ca_audit" /\ r.id = loc[s].recId
    /\ loc[s].used = 0 /\ loc[s].newUsed > 0
    /\ r.status = "ACTIVE" /\ r.remaining_coupons = loc[s].newUsed

\* C20: an adjustment called with an empty reason is rejected before it
\* touches storage: no step of such a call changes a record or appends an
\* audit entry, and the call does not return success.
C20_EmptyReasonRejected ==
  [][\A s \in Stations :
       (/\ loc[s].op = "adjust" /\ loc[s].reason = Blank
        /\ pc[s] \in {"aj_read", "aj_write", "aj_audit"}
        /\ pc'[s] # pc[s]) =>
          /\ servings' = servings
          /\ audit_logs' = audit_logs
          /\ ~(pc'[s] = "done" /\ loc'[s].result = "success")]_vars

\* C21: a status change to ACTIVE on a record read with remaining 0 stores
\* exhausted, on a record read with remaining > 0 stores ACTIVE; a status
\* change to CLOSED stores CLOSED; the write changes the status of that
\* record only, never its entitled or remaining count.
C21_SetStatusStores ==
  [][\A s \in Stations :
       /\ (pc[s] = "cu_read" /\ pc'[s] = "cu_write") =>
            \A r \in EntryById(loc[s].recId) :
              loc'[s].status =
                IF loc[s].status = "CLOSED" THEN "CLOSED"
                ELSE IF r.remaining_coupons = 0 THEN "FOOD_EXHAUSTED" ELSE "ACTIVE"
       /\ (pc[s] = "cu_write" /\ pc'[s] = "cu_audit") =>
            \A r \in EntryById(loc[s].recId) :
              event_entries' =
                (event_entries \ {r}) \cup {[r EXCEPT !.status = loc[s].status]}]_vars

\* an entry that was closed has been reopened with nothing remaining and
\* stored as exhausted
C21_Witness ==
  \E s \in Stations, r \in event_entries :
    /\ pc[s] = "cu_audit" /\ r.id = loc[s].recId /\ ~loc[s].applied
    /\ r.remaining_coupons = 0 /\ r.total_coupons > 0
    /\ r.status = "FOOD_EXHAUSTED"
    /\ \E i \in 1..Len(audit_logs) : audit_logs[i].action_type = "CLOSE"

\* C22: a serve called with a quantity that is not positive is rejected
\* before it touches storage: no step of such a call changes an entry or
\* appends an audit entry, and the call does not return success.
C22_NonPositiveServeRejected ==
  [][\A s \in Stations :
       (/\ loc[s].op = "consume" /\ loc[s].qty <= 0
        /\ pc[s] \in {"cs_read", "cs_write", "cs_audit"}
        /\ pc'[s] # pc[s]) =>
          /\ event_entries' = event_entries
          /\ audit_logs' = audit_logs
          /\ ~(pc'[s] = "done" /\ loc'[s].result = "success")]_vars

\* C23: a reconcile run applies every valid row of its input: the run ends at
\* the fetch, before any row is applied, only when the source is unreachable
\* or the input holds no valid row; rows that are not valid are counted as
\* errors and never stop the valid ones.
C23_ValidRowsApplied ==
  [][\A s \in Stations :
       (CallBy(s) /\ loc'[s].op = "sync" /\ pc'[s] = "done") =>
          loc'[s].result \in {"FETCH_FAILED", "NO_VALID_FAMILIES"}]_vars

\* C24: when the upsert of one batch of a reconcile run fails, the directory
\* keeps what the earlier batches committed, the run goes on to the next
\* batch when there is one, the failure adds one message to the error list
\* and the batch's rows to the error count, and the run reports success only
\* when every batch was applied.
C24_BatchFailureSurfaced ==
  [][\A s \in Stations :
       /\ (/\ pc[s] = "b_upsert" /\ loc'[s].i = loc[s].i + 1
           /\ loc'[s].sync.synced = loc[s].sync.synced) =>
             /\ directory' = directory
             /\ loc'[s].errs = loc[s].errs + 1
             /\ loc'[s].sync.errors =
                  loc[s].sync.errors + Len(BatchOf(loc[s].list, loc[s].i))
             /\ pc'[s] = IF loc[s].i * BATCH_SIZE < Len(loc[s].list)
                         THEN "b_upsert" ELSE "b_audit"
       /\ (pc[s] = "b_audit" /\ pc'[s] = "done") =>
             /\ loc'[s].result \in {"success", "failure"}
             /\ loc'[s].result = "success" <=>
                  /\ loc[s].sync.synced = Len(loc[s].list)
                  /\ loc[s].sync.errors = 0]_vars

\* the first batch failed, the second one was attempted and committed
C24_Witness ==
  \E s \in Stations :
    /\ pc[s] = "b_audit" /\ Len(loc[s].list) = 2
    /\ loc[s].sync.errors = 1 /\ loc[s].sync.synced = 1 /\ loc[s].errs = 1
    /\ loc[s].list[1].family_id = "F1" /\ loc[s].list[2].family_id = "F2"
    /\ UpsertRow(loc[s].list[2]) \in directory
    /\ UpsertRow(loc[s].list[1]) \notin directory

\* the families a row matches when its write lands: by phone when the row
\* has one that some family carries, else by surname and head name without
\* regard to case (the sheet of the matching sync has no identifier column)
MatchedFamilies(row) ==
  IF row.phone # NoPhone /\ PhoneMatches(row) # {}
  THEN PhoneMatches(row)
  ELSE NameMatches(row)

\* C25: the write of a reconcile row that matches a family overwrites all
\* fields of exactly one matched family and adds no family; the write of a
\* row that matches no family adds exactly one family built from the row.
C25_MatchThenUpsert ==
  [][\A s \in Stations :
       (pc[s] = "m_write" /\ loc'[s].i = loc[s].i + 1) =>
          LET row == loc[s].list[loc[s].i]
              matched == MatchedFamilies(row)
          IN IF matched # {}
             THEN \E r \in matched :
                    directory' = (directory \ {r}) \cup {Payload(r.id, row)}
             ELSE /\ directory' = directory \cup {Payload(nextId, row)}
                  /\ Cardinality(directory') = Cardinality(directory) + 1]_vars

\* C26: no step of a reconcile run changes a family that is in the directory
\* and absent from the run's input.
C26_AbsentFamilyKept ==
  [][\A s \in Stations :
       (pc[s] \in SyncLabels /\ pc'[s] # pc[s]) =>
          \A f \in FamilyIds :
            (/\ families[f] # 0
             /\ \A k \in DOMAIN loc[s].list : loc[s].list[k].family_id # f) =>
               families'[f] = families[f]]_vars

\* C27: in every state of the family directory, whatever reconcile runs have
\* been made, no two families share an identifier and every family's size is
\* at least 1.
C27_DirectoryInvariant ==
  /\ \A r1, r2 \in directory : r1.id = r2.id => r1 = r2
  /\ \A r \in directory : r.family_size >= 1

\* both families are in the directory, F1 overwritten with a larger size, and
\* a later run has skipped a row and applied another
C27_Witness ==
  /\ \E r1, r2 \in directory :
       r1.id = "F1" /\ r1.family_size = MaxSize /\ r2.id = "F2"
  /\ \E s \in Stations :
       /\ pc[s] = "b_audit"
       /\ loc[s].sync.skipped = 1 /\ loc[s].sync.synced = 1

\* C28: the step by which a reconcile run that has read its input returns,
\* whether the input was empty, held only invalid rows or had batches that
\* failed, appends exactly one SYNC entry to the audit log.
C28_RunRecordsOneSync ==
  [][\A s \in Stations :
       (/\ pc'[s] = "done" /\ loc'[s].op = "batch_sync"
        /\ calls' = calls + 1 \/ pc[s] = "b_audit"
        /\ loc'[s].result \in {"EMPTY", "success", "failure"}) =>
          /\ Len(audit_logs') = Len(audit_logs) + 1
          /\ SubSeq(audit_logs', 1, Len(audit_logs)) = audit_logs
          /\ audit_logs'[Len(audit_logs')].action_type = "SYNC"]_vars

\* the step is the storage write of a call at the given label
WriteAt(label) == \E s \in Stations : pc[s] = label /\ pc'[s] # label

\* C29: whenever a step changes the status of a record, a CLOSED record
\* changes only by the write of a status change, a record becomes CLOSED
\* only by that write, an exhausted record becomes ACTIVE only by the write
\* of an adjustment, and an ACTIVE record becomes exhausted only by the write
\* of a serve or of an adjustment.
C29_StatusMachine ==
  [][\A r \in event_entries : \A q \in event_entries' :
       (q.id = r.id /\ q.status # r.status) =>
          /\ (r.status = "CLOSED" \/ q.status = "CLOSED") => WriteAt("cu_write")
          /\ (r.status = "FOOD_EXHAUSTED" /\ q.status = "ACTIVE") =>
               WriteAt("ca_write")
          /\ (r.status = "ACTIVE" /\ q.status = "FOOD_EXHAUSTED") =>
               WriteAt("cs_write") \/ WriteAt("ca_write")]_vars

\* C30: a serve of a positive quantity whose conditional write is issued
\* when the record is CLOSED changes nothing: the remaining count and the
\* status CLOSED stay as they are, and the serve does not go on to report
\* success.
C30_ClosedNeverServed ==
  [][\A s \in Stations :
       (pc[s] = "cs_write" /\ pc'[s] # "cs_write" /\ loc[s].qty > 0) =>
          \A r \in EntryById(loc[s].recId) :
            r.status = "CLOSED" =>
              /\ event_entries' = event_entries
              /\ pc'[s] # "cs_audit"]_vars

\* C31: in every state a record with status ACTIVE has coupons remaining
\* and a record with status exhausted has none.
C31_StatusMatchesRemaining ==
  \A r \in event_entries :
    /\ r.status = "ACTIVE" => r.remaining_coupons > 0
    /\ r.status = "FOOD_EXHAUSTED" => r.remaining_coupons = 0

\* C32: the delete of a volunteer's undo, issued when coupons of the record
\* have been consumed, deletes nothing.
C32_UndoKeepsServedRecord ==
  [][\A s \in Stations :
       (pc[s] = "cd_delete" /\ pc'[s] # "cd_delete" /\ loc[s].role # "admin") =>
          \A r \in EntryById(loc[s].recId) :
            r.remaining_coupons # r.total_coupons => r \in event_entries']_vars

\* C33: the write of an adjustment never overwrites plates served since the
\* adjustment read the record: it leaves the record as stored or stores the
\* stored count shifted by the adjustment (not below 0).
C33_AdjustKeepsServed ==
  [][\A s \in Stations :
       (pc[s] = "aj_write" /\ pc'[s] # "aj_write") =>
          \A r \in ServingById(loc[s].recId) :
            \/ r \in servings'
            \/ [r EXCEPT !.plates_used = Max(0, r.plates_used + loc[s].qty)]
                 \in servings']_vars

\* the SERVE and ADJUST audit entries of a record
UsedEntries(r) ==
  {i \in DOMAIN audit_logs :
     /\ audit_logs[i].action_type \in {"SERVE", "ADJUST"}
     /\ audit_logs[i].family_id = r.family_id
     /\ audit_logs[i].event_name = r.event_name}

\* some order of the entries is a chain from 0 to the stored count
ChainTo(entries, used) ==
  IF entries = {} THEN used = 0
  ELSE \E p \in [1..Cardinality(entries) -> entries] :
         /\ \A j, k \in DOMAIN p : j # k => p[j] # p[k]
         /\ audit_logs[p[1]].before_value = 0
         /\ \A j \in DOMAIN p :
              j > 1 => audit_logs[p[j]].before_value = audit_logs[p[j - 1]].after_value
         /\ audit_logs[p[Cardinality(entries)]].after_value = used

\* C34: when no call is in flight and the session was never reset, the SERVE
\* and ADJUST audit entries of each record, taken in the order their writes
\* committed, form a chain: the first starts from 0, each starts from the
\* count the one before it left, and the last one leaves the stored count.
C34_AuditChain ==
  (/\ \A s \in Stations : Idle(s)
   /\ \A i \in DOMAIN audit_logs : audit_logs[i].action_type # "RESET") =>
     \A r \in servings : ChainTo(UsedEntries(r), r.plates_used)


(***************************************************************************)
(* Serve calls contending on one record (plates ledger), with the server   *)
(* running every started call to its return                                *)
(***************************************************************************)
\* the awaited steps of servePlates after its first read
ServeStep(s) == ServeReadServing(s) \/ ServeWrite(s) \/ ServeAudit(s)

NextContend ==
  \E s \in Stations :
    \/ ServeReadFamily(s)
    \/ ServeReadServing(s)
    \/ ServeWrite(s)
    \/ ServeAudit(s)

\* Every awaited query resolves, so a started call is never left suspended.
SpecContend ==
  /\ InitRace
  /\ [][NextContend]_vars
  /\ \A s \in Stations : WF_vars(ServeStep(s))

\* C35: a Serve call makes at most one conditional write and then returns or
\* goes on to its audit entry; with only Serve calls touching the record, a
\* call returns CONCURRENCY only if the stored used count moved away from the
\* value it read (another Serve committed in between), so of the calls that
\* contend at least one succeeds; and every started call returns a result.
C35_ServeProgress ==
  /\ [][\A s \in Stations :
          (pc[s] = "sv_write" /\ pc'[s] # "sv_write") =>
             /\ loc[s].writes = 0
             /\ pc'[s] \in {"done", "sv_audit"}
             /\ pc'[s] = "sv_audit" => loc'[s].writes = 1
             /\ (pc'[s] = "done" /\ loc'[s].result = "CONCURRENCY") =>
                  /\ servings' = servings
                  /\ \A r \in servings :
                       r.id = loc[s].recId => r.plates_used > loc[s].used]_vars
  /\ \A s \in Stations : (pc[s] \notin {"idle", "done"}) ~> (pc[s] = "done")
  /\ \A s \in Stations : [](pc[s] = "done" => loc[s].result # "none")

\* C35 witness: one call has lost at its conditional write while the other,
\* which read the same count, has committed and is about to log.
C35_Witness ==
  \E s, w \in Stations :
    /\ pc[s] = "done" /\ loc[s].op = "serve" /\ loc[s].result = "CONCURRENCY"
    /\ pc[w] = "sv_audit" /\ loc[w].applied


(***************************************************************************)
(* Serve (plates ledger) next to the sync route and check-in               *)
(***************************************************************************)
NextReconcile ==
  \E s \in Stations :
    \/ SyncFetch(s)
    \/ SyncCount(s)
    \/ SyncDelete(s)
    \/ SyncInsert(s)
    \/ SyncAudit(s)
    \/ CheckInReadFamily(s)
    \/ CheckInReadExisting(s)
    \/ CheckInWrite(s)
    \/ CheckInAudit(s)
    \/ ServeReadFamily(s)
    \/ ServeReadServing(s)
    \/ ServeWrite(s)
    \/ ServeAudit(s)

SpecReconcile == InitRace /\ [][NextReconcile]_vars

\* C36: a Serve whose conditional write commits leaves the record's used
\* count within the entitlement the directory gives the family at that
\* moment, also when a sync lowered the family's size after the Serve read it.
C36_ServeWithinCurrentSize ==
  [][\A s \in Stations :
       (pc[s] = "sv_write" /\ pc'[s] = "sv_audit") =>
          \A r \in servings' :
            r.id = loc[s].recId => r.plates_used <= families'[r.family_id]]_vars


\* C37: the count a reset stores in its RESET entry is the number of records
\* its delete removed, also when a CheckIn or Serve for the session commits
\* between the reset's count and its delete (no other reset in flight).
C37_ResetCountsDeleted ==
  [][\A s \in Stations :
       (/\ pc[s] = "rs_delete" /\ pc'[s] = "rs_audit"
        /\ \A o \in Stations \ {s} : loc[o].op # "reset") =>
          Cardinality(servings \ servings') = loc'[s].cnt]_vars


\* C38: a reset of session S removes records of S only: its delete step
\* leaves every record of another session, the family directory and the
\* audit log as they were, and its audit step only appends to the log.
C38_ResetFrame ==
  [][\A s \in Stations :
       /\ (pc[s] = "rs_delete" /\ pc'[s] # "rs_delete") =>
            /\ servings' \subseteq servings
            /\ \A r \in servings : r.event_name # loc[s].ev => r \in servings'
            /\ families' = families
            /\ directory' = directory
            /\ audit_logs' = audit_logs
       /\ (pc[s] = "rs_audit" /\ pc'[s] # "rs_audit") =>
            /\ servings' = servings
            /\ families' = families
            /\ directory' = directory
            /\ Len(audit_logs') >= Len(audit_logs)
            /\ SubSeq(audit_logs', 1, Len(audit_logs)) = audit_logs]_vars

\* C38 witness: a reset of E2 has deleted and returned while a record of E1,
\* checked in before it, is still stored.
C38_Witness ==
  /\ \E s \in Stations :
       /\ pc[s] = "done" /\ loc[s].op = "reset" /\ loc[s].result = "success"
       /\ eventName[s] = "E2"
  /\ \E i \in DOMAIN audit_logs :
       audit_logs[i].action_type = "RESET" /\ audit_logs[i].event_name = "E2"
  /\ \A i \in DOMAIN audit_logs : audit_logs[i].action_type = "RESET" => audit_logs[i].event_name = "E2"
  /\ \E r \in servings : r.event_name = "E1"


\* C39: in the result of a sync run that read rows, total = synced + skipped
\* + errors, and when no batch failed (so every error string is a per-row
\* one) the number of error strings equals skipped.  Stated on the values the
\* run holds when it builds its audit row and response.
C39_StatsPartition ==
  \A s \in Stations :
    pc[s] = "b_audit" =>
      LET l == loc[s]
      IN /\ l.sync.total = l.sync.synced + l.sync.skipped + l.sync.errors
         /\ l.sync.errors = 0 => l.errs = l.sync.skipped

====
